---------------------------- MODULE Spec2Model ----------------------------
(***************************************************************************)
(* Model of the document-ingestion pipeline of Misania:                    *)
(*   JsonImportValidator  (src/src/services/jsonImportValidator.ts)        *)
(*   HarvestDataParser    (src/src/services/harvestDataParser.ts)          *)
(*   HarvestDataImporter  (src/unnamed/part_009)                           *)
(*   HarvestImportService (src/src/services/harvestImportService.ts)       *)
(*                                                                         *)
(* JavaScript values are tagged records [t |-> type, v |-> value].  A      *)
(* string is a sequence of one-character strings, so that trim() and the   *)
(* URL parser are computed on its characters.  The character "h" stands    *)
(* for a scheme-and-host prefix such as "https://ex.com/": a string parses *)
(* as an absolute URL iff, leading and trailing blanks stripped, it starts *)
(* with it.                                                                *)
(***************************************************************************)
EXTENDS Integers, Sequences, FiniteSets, TLC

\* ------------------------------------------------------------------------
\* Bounds of the model
\* ------------------------------------------------------------------------
MaxDocs == 2

\* ------------------------------------------------------------------------
\* JavaScript values
\* ------------------------------------------------------------------------
Undef == [t |-> "undef"]
Null == [t |-> "null"]
Num(n) == [t |-> "num", v |-> n]
Str(s) == [t |-> "str", v |-> s]
Arr(s) == [t |-> "arr", v |-> s]
Obj(f) == [t |-> "obj", v |-> f]

\* !!x
Truthy(x) ==
    CASE x.t = "undef" -> FALSE
      [] x.t = "null" -> FALSE
      [] x.t = "num" -> x.v # 0
      [] x.t = "str" -> x.v # <<>>
      [] OTHER -> TRUE

\* x && typeof x === 'object'   (arrays are objects too)
IsObject(x) == x.t \in {"obj", "arr"}

\* Array.isArray(x)
IsArray(x) == x.t = "arr"

\* typeof x === 'string'
IsString(x) == x.t = "str"

\* x.name : undefined unless x is a plain object that has the property
Field(x, name) ==
    IF x.t = "obj" /\ name \in DOMAIN x.v THEN x.v[name] ELSE Undef

\* x || d
OrElse(x, d) == IF Truthy(x) THEN x ELSE d

RECURSIVE TrimLeft(_)
TrimLeft(s) ==
    IF s # <<>> /\ Head(s) = " " THEN TrimLeft(Tail(s)) ELSE s

RECURSIVE TrimRight(_)
TrimRight(s) ==
    IF s # <<>> /\ s[Len(s)] = " " THEN TrimRight(SubSeq(s, 1, Len(s) - 1)) ELSE s

\* String.prototype.trim on the characters of s
Trim(s) == TrimRight(TrimLeft(s))

\* new URL(s) does not throw: the parser strips leading and trailing blanks
\* and needs a scheme
ParsesAsUrl(s) == Trim(s) # <<>> /\ Head(Trim(s)) = "h"

\* ------------------------------------------------------------------------
\* Inputs
\* ------------------------------------------------------------------------
UrlA == <<"h", "a">>
UrlB == <<"h", "b">>
UrlAPadded == <<" ", "h", "a">>
NotAUrl == <<"n">>
Blank == <<" ">>
NameDup == <<"d">>

\* the values of an entry's url_doc: missing, a number, and strings
UrlDocValues ==
    {Undef, Num(5), Str(Blank), Str(UrlA), Str(UrlAPadded), Str(UrlB), Str(NotAUrl)}

\* sequences over S of length 0..n
SeqUpTo(S, n) == UNION {[1..k -> S] : k \in 0..n}

\* a document entry: null, or an object with url_doc and document_name
DocEntries(names) ==
    {Null} \cup {Obj([url_doc |-> u, document_name |-> n]) : u \in UrlDocValues, n \in names}

\* log entries: null, an object without level and message, a complete object
NullLog == Null
BareLog == Obj([level |-> Undef, message |-> Undef])
FullLog == Obj([level |-> Str(<<"e">>), message |-> Str(<<"m">>)])
OtherLog == Obj([level |-> Undef, message |-> Str(<<"o">>)])

\* the values of the envelope's logs field
LogsValues ==
    {Undef, Str(<<"x">>), Arr(<<>>), Arr(<<NullLog>>), Arr(<<BareLog>>), Arr(<<FullLog>>),
     Arr(<<FullLog, BareLog>>)}

\* an envelope object; the field obstacles is the JSON key "obstacles-globaux"
Envelope(documents, logs, obstacles, recommandations) ==
    Obj([documents |-> documents, logs |-> logs, obstacles |-> obstacles,
         recommandations |-> recommandations])

\* the envelopes: a top-level value that is no object; objects with up to
\* MaxDocs entries drawn from docEntries and no other field; objects with at
\* most one entry, their logs field drawn from logsValues, with and without
\* obstacles and recommandations
Envelopes(docEntries, logsValues) ==
    {Null, Num(5)}
    \cup {Envelope(d, Undef, Undef, Undef) :
            d \in {Undef, Str(<<"x">>)} \cup {Arr(s) : s \in SeqUpTo(docEntries, MaxDocs)}}
    \cup {Envelope(d, l, o, r) :
            d \in {Undef} \cup {Arr(s) : s \in SeqUpTo(docEntries, 1)},
            l \in logsValues,
            o \in {Undef, Arr(<<Str(<<"x">>), Str(Blank)>>)},
            r \in {Undef, Str(<<"y", " ">>), Str(Blank)}}

\* a JSON text: one that JSON.parse rejects, or the text of a value
BadText == [t |-> "bad"]
Texts(docEntries, logsValues) ==
    {BadText} \cup {[t |-> "json", v |-> e] : e \in Envelopes(docEntries, logsValues)}


\* ------------------------------------------------------------------------
\* The clock: new Date()
\* ------------------------------------------------------------------------
DigitChar == <<"0", "1", "2", "3", "4", "5", "6", "7", "8", "9">>

\* new Date().getFullYear() at clock value now (one tick is one year)
FullYear(now) == 2025 + now

\* new Date().toISOString() at clock value now
ToISOString(now) == <<"T", DigitChar[now + 1]>>

\* ------------------------------------------------------------------------
\* JsonImportValidator.extractValidData
\* ------------------------------------------------------------------------
InfoLevel == <<"i">>
DefaultLogMessage == <<"L">>

EmptyExtract ==
    [documents |-> <<>>, logs |-> <<>>, obstacles_globaux |-> <<>>, recommandations |-> Null]

\* .filter(doc => doc && typeof doc === 'object' && doc.url_doc)
HasUrlDoc(doc) == IsObject(doc) /\ Truthy(Field(doc, "url_doc"))

\* DedupFilter comparing the urls as written, without trim()
RECURSIVE DedupFilter_Untrimmed(_, _)
DedupFilter_Untrimmed(docs, seenUrls) ==
    IF docs = <<>> THEN [threw |-> FALSE, kept |-> <<>>]
    ELSE LET doc == Head(docs)
             u == Field(doc, "url_doc")
         IN IF ~IsString(u) THEN [threw |-> TRUE, kept |-> <<>>]
            ELSE LET rest == DedupFilter_Untrimmed(Tail(docs), seenUrls \cup {u.v})
                 IN IF u.v \in seenUrls THEN rest
                    ELSE [threw |-> rest.threw, kept |-> <<doc>> \o rest.kept]

\* .filter(doc => { const url = doc.url_doc.trim(); if (seenUrls.has(url)) return false;
\*                  seenUrls.add(url); return true; })
\* threw: doc.url_doc has no trim method (a truthy value that is no string)
RECURSIVE DedupFilter(_, _)
DedupFilter(docs, seenUrls) ==
    IF docs = <<>> THEN [threw |-> FALSE, kept |-> <<>>]
    ELSE LET doc == Head(docs)
             u == Field(doc, "url_doc")
         IN IF ~IsString(u) THEN [threw |-> TRUE, kept |-> <<>>]
            ELSE LET url == Trim(u.v)
                     rest == DedupFilter(Tail(docs), seenUrls \cup {url})
                 IN IF url \in seenUrls THEN rest
                    ELSE [threw |-> rest.threw, kept |-> <<doc>> \o rest.kept]

\* .map(doc => ({ url_doc: doc.url_doc, document_name: doc.document_name || '', ...,
\*               annee: doc.annee || new Date().getFullYear(), ... }))
CleanDocument(doc, now) ==
    [url_doc |-> Field(doc, "url_doc"),
     document_name |-> OrElse(Field(doc, "document_name"), Str(<<>>)),
     filename |-> OrElse(Field(doc, "filename"), Str(<<>>)),
     date_edition |-> OrElse(Field(doc, "date_edition"), Str(<<>>)),
     auteurs |-> OrElse(Field(doc, "auteurs"), Str(<<>>)),
     langue |-> OrElse(Field(doc, "langue"), Str(<<>>)),
     resume |-> OrElse(Field(doc, "resume"), Str(<<>>)),
     statut |-> OrElse(Field(doc, "statut"), Str(<<>>)),
     issue_number |-> OrElse(Field(doc, "issue_number"), Str(<<>>)),
     annee |-> OrElse(Field(doc, "annee"), Num(FullYear(now))),
     format |-> OrElse(Field(doc, "format"), Str(<<>>)),
     type_document |-> OrElse(Field(doc, "type_document"), Str(<<>>)),
     content_text |-> OrElse(Field(doc, "content_text"), Str(<<>>)),
     pdf_pattern_verified |-> Truthy(Field(doc, "pdf_pattern_verified")),
     notes |-> OrElse(Field(doc, "notes"), Str(<<>>)),
     obstacles |-> OrElse(Field(doc, "obstacles"), Str(<<>>))]

\* .map(log => ({ level: log.level || 'info', message: log.message || '...',
\*               timestamp: log.timestamp || new Date().toISOString(), ... }))
CleanLog(log, now) ==
    [level |-> OrElse(Field(log, "level"), Str(InfoLevel)),
     message |-> OrElse(Field(log, "message"), Str(DefaultLogMessage)),
     timestamp |-> OrElse(Field(log, "timestamp"), Str(ToISOString(now)))]

MapSeq(s, F(_)) == [k \in 1..Len(s) |-> F(s[k])]

\* obstacles: the strings of the array, trimmed, the empty ones dropped
CleanObstacles(x) ==
    IF IsArray(x)
    THEN SelectSeq(MapSeq(SelectSeq(x.v, IsString), LAMBDA o : Trim(o.v)),
                   LAMBDA o : Len(o) > 0)
    ELSE <<>>

\* recommandations: the trimmed string, or null
CleanRecommandations(x) ==
    IF IsString(x) /\ Trim(x.v) # <<>> THEN Str(Trim(x.v)) ELSE Null

\* extractValidData without its try/catch: the exception leaves the function
extractValidData_NoCatch(text, now) ==
    IF text.t = "bad" THEN [threw |-> TRUE]
    ELSE LET data == text.v IN
    IF data.t \in {"null", "undef"} THEN [threw |-> TRUE]
    ELSE LET documents == Field(data, "documents")
             logs == Field(data, "logs")
             dedup == IF IsArray(documents)
                      THEN DedupFilter(SelectSeq(documents.v, HasUrlDoc), {})
                      ELSE [threw |-> FALSE, kept |-> <<>>]
         IN IF dedup.threw THEN [threw |-> TRUE]
            ELSE [documents |-> MapSeq(dedup.kept, LAMBDA d : CleanDocument(d, now)),
                  logs |-> IF IsArray(logs)
                           THEN MapSeq(SelectSeq(logs.v, IsObject), LAMBDA l : CleanLog(l, now))
                           ELSE <<>>,
                  obstacles_globaux |-> CleanObstacles(Field(data, "obstacles")),
                  recommandations |-> CleanRecommandations(Field(data, "recommandations"))]

\* extractValidData(jsonContent) at date now; every exception is caught and the
\* all-empty result returned
extractValidData(text, now) ==
    IF text.t = "bad" THEN EmptyExtract                     \* JSON.parse throws
    ELSE LET data == text.v IN
    IF data.t \in {"null", "undef"} THEN EmptyExtract       \* data.documents throws
    ELSE LET documents == Field(data, "documents")
             logs == Field(data, "logs")
             dedup == IF IsArray(documents)
                      THEN DedupFilter(SelectSeq(documents.v, HasUrlDoc), {})
                      ELSE [threw |-> FALSE, kept |-> <<>>]
         IN IF dedup.threw THEN EmptyExtract
            ELSE [documents |-> MapSeq(dedup.kept, LAMBDA d : CleanDocument(d, now)),
                  logs |-> IF IsArray(logs)
                           THEN MapSeq(SelectSeq(logs.v, IsObject), LAMBDA l : CleanLog(l, now))
                           ELSE <<>>,
                  obstacles_globaux |-> CleanObstacles(Field(data, "obstacles")),
                  recommandations |-> CleanRecommandations(Field(data, "recommandations"))]

\* ------------------------------------------------------------------------
\* JsonImportValidator.validateImportJson
\* ------------------------------------------------------------------------
\* a ValidationError: severity, field, and what the message says (code);
\* index is documentIndex or logIndex (-1: none), positions the 1-based
\* positions a duplicate finding lists
Finding(severity, field, code, index) ==
    [severity |-> severity, field |-> field, code |-> code, index |-> index,
     positions |-> <<>>]

LargeImportThreshold == 1000

\* validateDocument(doc, index, errors, warnings): the findings it pushes, its
\* return value, and whether it threw a TypeError (document_name or filename
\* truthy and without a trim method) after pushing them
validateDocument(doc, index) ==
    IF ~IsObject(doc)
    THEN [errors |-> <<Finding("error", "document", "not_object", index)>>,
          warnings |-> <<>>, valid |-> FALSE, threw |-> FALSE]
    ELSE LET u == Field(doc, "url_doc")
             name == Field(doc, "document_name")
             filename == Field(doc, "filename")
             urlCode == IF ~Truthy(u) THEN "missing"
                        ELSE IF ~IsString(u) THEN "not_string"
                        ELSE IF Trim(u.v) = <<>> THEN "blank"
                        ELSE IF ~ParsesAsUrl(u.v) THEN "invalid_url"
                        ELSE "ok"
             errs == IF urlCode = "ok" THEN <<>>
                     ELSE <<Finding("error", "url_doc", urlCode, index)>>
             nameThrows == Truthy(name) /\ ~IsString(name)
             nameWarn == IF ~Truthy(name) \/ (IsString(name) /\ Trim(name.v) = <<>>)
                         THEN <<Finding("warning", "document_name", "missing", index)>>
                         ELSE <<>>
             fileThrows == Truthy(filename) /\ ~IsString(filename)
             fileWarn == IF ~Truthy(filename) \/ (IsString(filename) /\ Trim(filename.v) = <<>>)
                         THEN <<Finding("warning", "filename", "missing", index)>>
                         ELSE <<>>
         IN IF nameThrows
            THEN [errors |-> errs, warnings |-> <<>>, valid |-> FALSE, threw |-> TRUE]
            ELSE IF fileThrows
            THEN [errors |-> errs, warnings |-> nameWarn, valid |-> FALSE, threw |-> TRUE]
            ELSE [errors |-> errs, warnings |-> nameWarn \o fileWarn,
                  valid |-> urlCode = "ok", threw |-> FALSE]

LogLevels == {<<"e">>, <<"w">>, InfoLevel}

\* validateLog(log, index, errors, warnings)
validateLog(log, index) ==
    IF ~IsObject(log)
    THEN [errors |-> <<Finding("error", "log", "not_object", index)>>,
          warnings |-> <<>>, valid |-> FALSE, threw |-> FALSE]
    ELSE LET level == Field(log, "level")
             message == Field(log, "message")
             levelWarn == IF ~Truthy(level)
                          THEN <<Finding("warning", "level", "missing", index)>>
                          ELSE IF ~(IsString(level) /\ level.v \in LogLevels)
                          THEN <<Finding("warning", "level", "unknown", index)>>
                          ELSE <<>>
             messageWarn == IF ~Truthy(message)
                            THEN <<Finding("warning", "message", "missing", index)>>
                            ELSE IF ~IsString(message)
                            THEN <<Finding("warning", "message", "not_string", index)>>
                            ELSE <<>>
         IN [errors |-> <<>>, warnings |-> levelWarn \o messageWarn,
             valid |-> TRUE, threw |-> FALSE]

\* data.documents.forEach / data.logs.forEach over entries k..Len(entries):
\* the findings are accumulated until an entry's validation throws
RECURSIVE ValidateEach(_, _, _, _)
ValidateEach(entries, k, V(_, _), acc) ==
    IF k > Len(entries) \/ acc.threw THEN acc
    ELSE LET r == V(entries[k], k - 1)
         IN ValidateEach(entries, k + 1, V,
                [errors |-> acc.errors \o r.errors,
                 warnings |-> acc.warnings \o r.warnings,
                 valid |-> acc.valid + (IF r.valid THEN 1 ELSE 0),
                 threw |-> r.threw])

\* UrlKey taking the url_doc as written, without trim()
UrlKey_Untrimmed(doc) ==
    LET u == Field(doc, "url_doc")
    IN IF Truthy(doc) /\ Truthy(u) /\ IsString(u) /\ Trim(u.v) # <<>> THEN u.v ELSE <<>>

\* the key of an entry in urlDocMap: its trimmed url_doc, or <<>> if it has none
UrlKey(doc) ==
    LET u == Field(doc, "url_doc")
    IN IF Truthy(doc) /\ Truthy(u) /\ IsString(u) THEN Trim(u.v) ELSE <<>>

\* the 0-based indices urlDocMap holds for url
UrlIndices(docs, url) ==
    SelectSeq([k \in 1..Len(docs) |-> k - 1], LAMBDA k : UrlKey(docs[k + 1]) = url)

\* validateImportJson without the search for duplicates
DuplicateFindings_None(docs) == <<>>

\* urlDocMap.forEach: one error per url held by several entries, in the order
\* the urls were first met
DuplicateFindings(docs) ==
    LET first == SelectSeq([k \in 1..Len(docs) |-> k],
                     LAMBDA k : /\ UrlKey(docs[k]) # <<>>
                                /\ \A j \in 1..(k - 1) : UrlKey(docs[j]) # UrlKey(docs[k]))
        dups == SelectSeq(first, LAMBDA k : Len(UrlIndices(docs, UrlKey(docs[k]))) > 1)
    IN [n \in 1..Len(dups) |->
           [Finding("error", "url_doc", "duplicate", -1) EXCEPT
               !.positions = MapSeq(UrlIndices(docs, UrlKey(docs[dups[n]])),
                                    LAMBDA k : k + 1)]]

NoFindings == [errors |-> <<>>, warnings |-> <<>>, valid |-> 0, threw |-> FALSE]

\* ValidationResult with the warnings counted against validity
ValidationResult_CountsWarnings(errors, warnings, summary) ==
    [isValid |-> Len(errors) = 0 /\ Len(warnings) = 0, errors |-> errors,
     warnings |-> warnings, summary |-> summary]

\* the value validateImportJson returns from the errors, warnings and summary
\* it has accumulated (the return statement at the end)
ValidationResult(errors, warnings, summary) ==
    [isValid |-> Len(errors) = 0, errors |-> errors, warnings |-> warnings,
     summary |-> summary]

validateImportJson(text) ==
    LET summary0 == [totalDocuments |-> 0, validDocuments |-> 0, totalLogs |-> 0, validLogs |-> 0]
        jsonError == Finding("error", "json", "syntax", -1)
    IN
    IF text.t = "bad" THEN ValidationResult(<<jsonError>>, <<>>, summary0)
    ELSE LET data == text.v IN
    IF ~Truthy(data) \/ ~(IsObject(data) \/ IsArray(data))
    THEN [isValid |-> FALSE, errors |-> <<Finding("error", "root", "not_object", -1)>>,
          warnings |-> <<>>, summary |-> summary0]
    ELSE
    LET documents == Field(data, "documents")
        logs == Field(data, "logs")
        \* the documents block
        docsPart ==
            IF ~Truthy(documents)
            THEN [NoFindings EXCEPT !.errors = <<Finding("error", "documents", "missing", -1)>>]
            ELSE IF ~IsArray(documents)
            THEN [NoFindings EXCEPT !.errors = <<Finding("error", "documents", "not_array", -1)>>]
            ELSE ValidateEach(documents.v, 1, validateDocument,
                    [NoFindings EXCEPT
                        !.warnings = IF Len(documents.v) = 0
                                     THEN <<Finding("warning", "documents", "empty", -1)>>
                                     ELSE <<>>,
                        !.errors = DuplicateFindings(documents.v)])
        totalDocuments == IF IsArray(documents) THEN Len(documents.v) ELSE 0
        \* the logs block, not reached if the documents block threw
        logsPart ==
            IF docsPart.threw THEN NoFindings
            ELSE IF ~Truthy(logs)
            THEN [NoFindings EXCEPT !.warnings = <<Finding("warning", "logs", "missing", -1)>>]
            ELSE IF ~IsArray(logs)
            THEN [NoFindings EXCEPT !.errors = <<Finding("error", "logs", "not_array", -1)>>]
            ELSE ValidateEach(logs.v, 1, validateLog, NoFindings)
        totalLogs == IF ~docsPart.threw /\ IsArray(logs) THEN Len(logs.v) ELSE 0
        threw == docsPart.threw \/ logsPart.threw
        large == IF ~threw /\ totalDocuments > LargeImportThreshold
                 THEN <<Finding("warning", "documents", "large", -1)>>
                 ELSE <<>>
    IN ValidationResult(
           docsPart.errors \o logsPart.errors \o (IF threw THEN <<jsonError>> ELSE <<>>),
           docsPart.warnings \o logsPart.warnings \o large,
           [totalDocuments |-> totalDocuments, validDocuments |-> docsPart.valid,
            totalLogs |-> totalLogs, validLogs |-> logsPart.valid])

\* ------------------------------------------------------------------------
\* HarvestDataParser
\* ------------------------------------------------------------------------
\* an entry of ImportResult.errors: the statement that pushed it (src), what
\* the message says (code) and the 1-based document number it names (0: none)
ErrorEntry(src, code, index) == [src |-> src, code |-> code, index |-> index]

\* parseDocument(doc, index): "throw" (not an object), "null" (excluded) or
\* "doc" with the parsed document
parseDocument(doc, index) ==
    IF ~IsObject(doc) THEN [kind |-> "throw"]
    ELSE LET u == Field(doc, "url_doc") IN
         IF ~Truthy(u) \/ ~IsString(u) THEN [kind |-> "null"]
         ELSE IF Trim(u.v) = <<>> THEN [kind |-> "null"]
         ELSE [kind |-> "doc",
               doc |-> [url_doc |-> Trim(u.v),
                        document_name |-> OrElse(Field(doc, "document_name"), Str(<<>>)),
                        filename |-> OrElse(Field(doc, "filename"), Str(<<>>)),
                        pattern_verified |-> Truthy(Field(doc, "pattern_verified"))]]

\* structuredData.documents.forEach(...): the documents pushed and the warnings
RECURSIVE ParseDocuments(_, _)
ParseDocuments(entries, k) ==
    IF k > Len(entries) THEN [documents |-> <<>>, warnings |-> <<>>]
    ELSE LET r == parseDocument(entries[k], k - 1)
             rest == ParseDocuments(entries, k + 1)
         IN CASE r.kind = "doc" ->
                   [documents |-> <<r.doc>> \o rest.documents, warnings |-> rest.warnings]
              [] r.kind = "null" -> rest
              [] OTHER ->
                   [documents |-> rest.documents,
                    warnings |-> <<ErrorEntry("parseDocument", "invalid_document", k)>>
                                     \o rest.warnings]

\* log.message is read from every entry of logs: reading it from null throws
LogReadThrows(log) == log.t \in {"null", "undef"}

\* the logs pushed by structuredData.logs.forEach(...)
ParseLogs(entries) ==
    MapSeq(SelectSeq(entries, LAMBDA l : Truthy(Field(l, "message"))),
           LAMBDA l : [level |-> OrElse(Field(l, "level"), Str(InfoLevel)),
                       message |-> Field(l, "message")])

parseStructuredData(structuredData) ==
    LET documents == Field(structuredData, "documents")
        obstacles == Field(structuredData, "obstacles")
        recommandations == Field(structuredData, "recommandations")
        logs == Field(structuredData, "logs")
        docs == IF Truthy(documents) /\ IsArray(documents)
                THEN ParseDocuments(documents.v, 1)
                ELSE [documents |-> <<>>,
                      warnings |-> <<ErrorEntry("parseStructuredData", "no_documents_array", 0)>>]
        hasLogs == Truthy(logs) /\ IsArray(logs)
    IN IF hasLogs /\ \E k \in 1..Len(logs.v) : LogReadThrows(logs.v[k])
       THEN [success |-> FALSE, error |-> ErrorEntry("parseStructuredData", "type_error", 0),
             warnings |-> docs.warnings]
       ELSE [success |-> TRUE,
             data |-> [documents |-> docs.documents,
                       obstacles_globaux |-> IF Truthy(obstacles) THEN CleanObstacles(obstacles)
                                             ELSE <<>>,
                       recommandations |-> IF Truthy(recommandations) /\ IsString(recommandations)
                                           THEN Str(Trim(recommandations.v)) ELSE Null,
                       logs |-> IF hasLogs THEN ParseLogs(logs.v) ELSE <<>>],
             warnings |-> docs.warnings]

\* parseOpenAIResponse(harvestResultData): its own warnings list stays empty
parseOpenAIResponse(harvestResultData) ==
    IF ~Truthy(harvestResultData) \/ ~IsObject(harvestResultData)
    THEN [success |-> FALSE, error |-> ErrorEntry("parseOpenAIResponse", "invalid_data", 0),
          warnings |-> <<>>]
    ELSE LET parsed == parseStructuredData(harvestResultData)
         IN IF ~parsed.success THEN parsed
            ELSE [success |-> TRUE, data |-> parsed.data, warnings |-> <<>>]

\* validateParsedData without the check of each url_doc
validateParsedData_NoUrlCheck(data) ==
    LET errors == IF Len(data.documents) = 0
                  THEN <<ErrorEntry("validateParsedData", "no_documents", 0)>> ELSE <<>>
    IN [isValid |-> Len(errors) = 0, errors |-> errors]

\* validateParsedData without the check that there is a document
validateParsedData_AllowsEmpty(data) ==
    LET bad == SelectSeq([k \in 1..Len(data.documents) |-> k],
                         LAMBDA k : ~ParsesAsUrl(data.documents[k].url_doc))
        errors == MapSeq(bad, LAMBDA k : ErrorEntry("validateParsedData", "invalid_url", k))
    IN [isValid |-> Len(errors) = 0, errors |-> errors]

\* validateParsedData(data)
validateParsedData(data) ==
    LET none == IF Len(data.documents) = 0
                THEN <<ErrorEntry("validateParsedData", "no_documents", 0)>> ELSE <<>>
        bad == SelectSeq([k \in 1..Len(data.documents) |-> k],
                         LAMBDA k : ~ParsesAsUrl(data.documents[k].url_doc))
        errors == none \o MapSeq(bad, LAMBDA k : ErrorEntry("validateParsedData", "invalid_url", k))
    IN [isValid |-> Len(errors) = 0, errors |-> errors]

\* ------------------------------------------------------------------------
\* State
\* ------------------------------------------------------------------------
VARIABLES
    input,        \* the payload: a JSON text (jsonContent; harvestResult.data is its value)
    clock,        \* the current date
    op,           \* the operation called: "none" before the call
    pc,           \* the position of the call in its code
    validation,   \* the value of validateImportJson(input), Null before it is computed
    extracted,    \* the value of extractValidData(input), Null before it is computed
    parsedData,   \* the batch the import works on (parsedData / the extracted arrays)
    i,            \* the 1-based number of the document or log the loop is at
    counters,     \* the loops' local counters
    result,       \* the ImportResult being built and returned
    snapshots,    \* the ImportProgress snapshots handed to the observer, in order
    calls,        \* the calls to the collaborators that have settled, in order
    inflight,     \* the persistence calls awaited and not yet settled, in order
    records,      \* the rows of harvest_results, oldest first (harvested_at order)
    sessions,     \* the open result dialogs, each with its loaded result and position
    progressCallback,  \* the observer registered with each importer class
    harvest       \* the call of OpenAIHarvestingService.harvestMultipleWebsites

vars == <<input, clock, op, pc, validation, extracted, parsedData, i, counters, result,
          snapshots, calls, inflight, records, sessions, progressCallback, harvest>>

\* the state of the importers, and what stays as it is during an import: the
\* table, the dialogs, the observers registered and the harvest
importVars == <<op, pc, validation, extracted, parsedData, i, counters, result, snapshots,
                calls, inflight, progressCallback, harvest>>
tableVars == <<records, sessions, progressCallback, harvest>>

\* the calls that write to the database
PersistenceKinds == {"createResult", "updateDataSource", "createLog"}
PersistenceCalls == SelectSeq(calls, LAMBDA c : c.kind \in PersistenceKinds)

\* a call to a collaborator: what was called, for which item, and whether it
\* succeeded
Call(kind, key, index, ok) == [kind |-> kind, key |-> key, index |-> index, ok |-> ok]

\* the observers the callers register; the static field of each importer
\* class holds one of them
Observers == {"cb1", "cb2"}
Registered == [importHarvestData |-> "cb1", importHarvestResults |-> "cb1"]

\* notifyProgress(progress): the snapshot is handed to the observer the
\* class's progressCallback holds at that moment (to), which returns or throws
Snapshot(phase, documentsProcessed, totalDocuments, threw) ==
    [phase |-> phase, documentsProcessed |-> documentsProcessed,
     totalDocuments |-> totalDocuments, threw |-> threw, to |-> progressCallback[op]]

\* notifyProgress delivering to the observer that received the import's
\* first snapshot
notifyProgress_Captured(phase, documentsProcessed, totalDocuments, threw) ==
    snapshots' = Append(snapshots,
        [Snapshot(phase, documentsProcessed, totalDocuments, threw) EXCEPT
            !.to = IF snapshots = <<>> THEN @ ELSE snapshots[1].to])

notifyProgress(phase, documentsProcessed, totalDocuments, threw) ==
    snapshots' = Append(snapshots, Snapshot(phase, documentsProcessed, totalDocuments, threw))

\* setProgressCallback(callback) of either class: the new observer replaces
\* the one registered
setProgressCallback ==
    /\ \E c \in DOMAIN progressCallback :
          /\ progressCallback[c] = "cb1"
          /\ progressCallback' = [progressCallback EXCEPT ![c] = "cb2"]
    /\ UNCHANGED <<input, clock, op, pc, validation, extracted, parsedData, i, counters,
                   result, snapshots, calls, inflight, records, sessions, harvest>>

\* the table before any import of the model, no dialog open, no harvest called
NoRecords == <<>>
NoSessions == <<>>
NoHarvest == <<>>

NoCounters == [documentsImported |-> 0, logsImported |-> 0, successCount |-> 0, errorCount |-> 0]

InitWith(texts) ==
    /\ input \in texts
    /\ clock = 0
    /\ op = "none"
    /\ pc = "idle"
    /\ validation = Null
    /\ extracted = Null
    /\ parsedData = Null
    /\ i = 0
    /\ counters = NoCounters
    /\ result = Null
    /\ snapshots = <<>>
    /\ calls = <<>>
    /\ inflight = <<>>
    /\ records = NoRecords
    /\ sessions = NoSessions
    /\ progressCallback = Registered
    /\ harvest = NoHarvest

\* ------------------------------------------------------------------------
\* HarvestDataImporter.importHarvestData(harvestResult, dataSource)
\* ------------------------------------------------------------------------
DataResult0 ==
    [success |-> FALSE, documentsImported |-> 0, obstaclesUpdated |-> FALSE,
     recommandationsUpdated |-> FALSE, logsImported |-> 0, errors |-> <<>>, warnings |-> <<>>]

\* the call: harvestResult.data is the value of a JSON column
D_Call ==
    /\ pc = "idle"
    /\ input.t = "json"
    /\ op' = "importHarvestData"
    /\ result' = DataResult0
    /\ pc' = "d_notify_parsing"
    /\ UNCHANGED <<input, clock, validation, extracted, parsedData, i, counters, snapshots, calls>>
    /\ UNCHANGED <<inflight, records, sessions, progressCallback, harvest>>

\* phase 1: the parsing snapshot
D_NotifyParsing ==
    /\ pc = "d_notify_parsing"
    /\ \E threw \in BOOLEAN :
          /\ notifyProgress("parsing", 0, 0, threw)
          /\ pc' = IF threw THEN "d_catch" ELSE "d_parse"
    /\ UNCHANGED <<input, clock, op, validation, extracted, parsedData, i, counters, result, calls>>
    /\ UNCHANGED <<inflight, records, sessions, progressCallback, harvest>>

\* D_Parse going on to the documents phase although validateParsedData failed
D_Parse_IgnoresValidation ==
    /\ pc = "d_parse"
    /\ LET parseResult == parseOpenAIResponse(input.v) IN
       IF ~parseResult.success
       THEN /\ result' = [result EXCEPT !.errors = Append(@, parseResult.error)]
            /\ pc' = "d_notify_parse_error"
            /\ UNCHANGED parsedData
       ELSE LET check == validateParsedData(parseResult.data) IN
            /\ parsedData' = parseResult.data
            /\ result' = [result EXCEPT !.warnings = parseResult.warnings,
                                        !.errors = @ \o check.errors]
            /\ pc' = "d_notify_documents"
    /\ UNCHANGED <<input, clock, op, validation, extracted, i, counters, snapshots, calls>>
    /\ UNCHANGED <<inflight, records, sessions, progressCallback, harvest>>

\* parseOpenAIResponse and validateParsedData, up to the snapshot that follows
D_Parse ==
    /\ pc = "d_parse"
    /\ LET parseResult == parseOpenAIResponse(input.v) IN
       IF ~parseResult.success
       THEN /\ result' = [result EXCEPT !.errors = Append(@, parseResult.error)]
            /\ pc' = "d_notify_parse_error"
            /\ UNCHANGED parsedData
       ELSE LET check == validateParsedData(parseResult.data) IN
            /\ parsedData' = parseResult.data
            /\ IF ~check.isValid
               THEN /\ result' = [result EXCEPT !.warnings = parseResult.warnings,
                                                !.errors = @ \o check.errors]
                    /\ pc' = "d_notify_invalid"
               ELSE /\ result' = [result EXCEPT !.warnings = parseResult.warnings]
                    /\ pc' = "d_notify_documents"
    /\ UNCHANGED <<input, clock, op, validation, extracted, i, counters, snapshots, calls>>
    /\ UNCHANGED <<inflight, records, sessions, progressCallback, harvest>>

\* the error snapshot of a failed parse or validation, then return result
D_NotifyRejected ==
    /\ pc \in {"d_notify_parse_error", "d_notify_invalid"}
    /\ \E threw \in BOOLEAN :
          /\ notifyProgress("error", 0,
                 IF pc = "d_notify_invalid" THEN Len(parsedData.documents) ELSE 0, threw)
          /\ pc' = IF threw THEN "d_catch" ELSE "returned"
    /\ UNCHANGED <<input, clock, op, validation, extracted, parsedData, i, counters, result, calls>>
    /\ UNCHANGED <<inflight, records, sessions, progressCallback, harvest>>

\* phase 2: the first documents snapshot, then the loop starts
D_NotifyDocuments ==
    /\ pc = "d_notify_documents"
    /\ \E threw \in BOOLEAN :
          /\ notifyProgress("documents", 0, Len(parsedData.documents), threw)
          /\ pc' = IF threw THEN "d_catch"
                   ELSE IF Len(parsedData.documents) = 0 THEN "d_notify_site" ELSE "d_document"
    /\ i' = 1
    /\ UNCHANGED <<input, clock, op, validation, extracted, parsedData, counters, result, calls>>
    /\ UNCHANGED <<inflight, records, sessions, progressCallback, harvest>>

\* the end of one iteration of the documents loop; after the last one
\* result.documentsImported is set
D_NextDocument(imported, errors) ==
    /\ i' = i + 1
    /\ IF i + 1 > Len(parsedData.documents)
       THEN /\ pc' = "d_notify_site"
            /\ result' = [result EXCEPT !.errors = errors, !.documentsImported = imported]
       ELSE /\ pc' = "d_document"
            /\ result' = [result EXCEPT !.errors = errors]

\* a persistence call that is awaited: it is in flight until it settles
Pending(kind, key, index) == [kind |-> kind, key |-> key, index |-> index]

\* the awaited call settles, successfully or not
Settle(ok) ==
    /\ inflight # <<>>
    /\ calls' = Append(calls, Call(Head(inflight).kind, Head(inflight).key,
                                   Head(inflight).index, ok))
    /\ inflight' = Tail(inflight)

\* D_CallCreateResult going on to the next document without awaiting the call
D_CallCreateResult_NoAwait ==
    /\ pc = "d_document"
    /\ inflight' = Append(inflight, Pending("createResult", parsedData.documents[i].url_doc, i))
    /\ D_NextDocument(counters.documentsImported, result.errors)
    /\ UNCHANGED <<input, clock, op, validation, extracted, parsedData, counters, snapshots,
                   calls>>
    /\ UNCHANGED tableVars

\* one document: skipped without url_doc, else createResult is called and
\* awaited
D_CallCreateResult ==
    /\ pc = "d_document"
    /\ LET doc == parsedData.documents[i] IN
       IF Trim(doc.url_doc) = <<>>
       THEN /\ D_NextDocument(counters.documentsImported, result.errors)
            /\ UNCHANGED inflight
       ELSE /\ inflight' = Append(inflight, Pending("createResult", doc.url_doc, i))
            /\ pc' = "d_await_document"
            /\ UNCHANGED <<i, result>>
    /\ UNCHANGED <<input, clock, op, validation, extracted, parsedData, counters, snapshots,
                   calls>>
    /\ UNCHANGED tableVars

\* createResult settles: the document is counted, or the failure is caught in
\* the loop and pushed to result.errors
D_CreateResult ==
    /\ pc = "d_await_document"
    /\ \E ok \in BOOLEAN :
          /\ Settle(ok)
          /\ IF ok
             THEN /\ counters' = [counters EXCEPT !.documentsImported = @ + 1]
                  /\ pc' = "d_notify_document"
                  /\ UNCHANGED <<i, result>>
             ELSE /\ D_NextDocument(counters.documentsImported,
                         Append(result.errors, ErrorEntry("document", "persistence", i)))
                  /\ UNCHANGED counters
    /\ UNCHANGED <<input, clock, op, validation, extracted, parsedData, snapshots>>
    /\ UNCHANGED tableVars

\* the snapshot after a persisted document, inside the loop's try: an
\* exception of the observer is caught like one of createResult
D_NotifyDocument ==
    /\ pc = "d_notify_document"
    /\ \E threw \in BOOLEAN :
          /\ notifyProgress("documents", i, Len(parsedData.documents), threw)
          /\ D_NextDocument(counters.documentsImported,
                 IF threw THEN Append(result.errors, ErrorEntry("document", "observer", i))
                 ELSE result.errors)
    /\ UNCHANGED <<input, clock, op, validation, extracted, parsedData, counters, calls>>
    /\ UNCHANGED <<inflight, records, sessions, progressCallback, harvest>>

\* phase 3: the site_update snapshot
D_NotifySite ==
    /\ pc = "d_notify_site"
    /\ \E threw \in BOOLEAN :
          /\ notifyProgress("site_update", Len(parsedData.documents),
                            Len(parsedData.documents), threw)
          /\ pc' = IF threw THEN "d_catch" ELSE "d_site"
    /\ UNCHANGED <<input, clock, op, validation, extracted, parsedData, i, counters, result, calls>>
    /\ UNCHANGED <<inflight, records, sessions, progressCallback, harvest>>

\* the update of the site: the flags are set, then updateDataSource is called
\* and awaited if there is something to update
D_CallUpdateSite ==
    /\ pc = "d_site"
    /\ LET hasObstacles == Len(parsedData.obstacles_globaux) > 0
           hasRecommandations == Truthy(parsedData.recommandations)
       IN /\ result' = [result EXCEPT !.obstaclesUpdated = @ \/ hasObstacles,
                                      !.recommandationsUpdated = @ \/ hasRecommandations]
          /\ IF hasObstacles \/ hasRecommandations
             THEN /\ inflight' = Append(inflight, Pending("updateDataSource", <<>>, 0))
                  /\ pc' = "d_await_site"
             ELSE /\ pc' = "d_notify_logs"
                  /\ UNCHANGED inflight
    /\ UNCHANGED <<input, clock, op, validation, extracted, parsedData, i, counters, snapshots,
                   calls>>
    /\ UNCHANGED tableVars

\* D_UpdateSite with the failure of updateDataSource left to the catch of the
\* whole import
D_UpdateSite_FailsBatch ==
    /\ pc = "d_await_site"
    /\ \E ok \in BOOLEAN :
          /\ Settle(ok)
          /\ pc' = IF ok THEN "d_notify_logs" ELSE "d_catch"
    /\ UNCHANGED <<input, clock, op, validation, extracted, parsedData, i, counters, result,
                   snapshots>>
    /\ UNCHANGED tableVars

\* updateDataSource settles: its failure is caught and pushed to result.errors
D_UpdateSite ==
    /\ pc = "d_await_site"
    /\ \E ok \in BOOLEAN :
          /\ Settle(ok)
          /\ result' = IF ok THEN result
                       ELSE [result EXCEPT
                                !.errors = Append(@, ErrorEntry("site", "persistence", 0))]
    /\ pc' = "d_notify_logs"
    /\ UNCHANGED <<input, clock, op, validation, extracted, parsedData, i, counters, snapshots>>
    /\ UNCHANGED tableVars

\* phase 4: the logs snapshot, then the loop starts
D_NotifyLogs ==
    /\ pc = "d_notify_logs"
    /\ \E threw \in BOOLEAN :
          /\ notifyProgress("logs", Len(parsedData.documents), Len(parsedData.documents), threw)
          /\ pc' = IF threw THEN "d_catch"
                   ELSE IF Len(parsedData.logs) = 0 THEN "d_final_log" ELSE "d_log"
    /\ i' = 1
    /\ UNCHANGED <<input, clock, op, validation, extracted, parsedData, counters, result, calls>>
    /\ UNCHANGED <<inflight, records, sessions, progressCallback, harvest>>

\* one log: createLog is called and awaited
D_CallCreateLog ==
    /\ pc = "d_log"
    /\ inflight' = Append(inflight, Pending("createLog", parsedData.logs[i].message.v, i))
    /\ pc' = "d_await_log"
    /\ UNCHANGED <<input, clock, op, validation, extracted, parsedData, i, counters, result,
                   snapshots, calls>>
    /\ UNCHANGED tableVars

\* D_CreateLog with the failure of createLog pushed to result.errors
D_CreateLog_PushesError ==
    /\ pc = "d_await_log"
    /\ \E ok \in BOOLEAN :
          /\ Settle(ok)
          /\ counters' = [counters EXCEPT !.logsImported = IF ok THEN @ + 1 ELSE @]
          /\ result' = IF ok THEN result
                       ELSE [result EXCEPT !.errors = Append(@, ErrorEntry("log", "persistence", i))]
    /\ i' = i + 1
    /\ pc' = IF i + 1 > Len(parsedData.logs) THEN "d_final_log" ELSE "d_log"
    /\ UNCHANGED <<input, clock, op, validation, extracted, parsedData, snapshots>>
    /\ UNCHANGED tableVars

\* createLog settles: its failure is only written to the console
D_CreateLog ==
    /\ pc = "d_await_log"
    /\ \E ok \in BOOLEAN :
          /\ Settle(ok)
          /\ counters' = [counters EXCEPT !.logsImported = IF ok THEN @ + 1 ELSE @]
    /\ i' = i + 1
    /\ pc' = IF i + 1 > Len(parsedData.logs) THEN "d_final_log" ELSE "d_log"
    /\ UNCHANGED <<input, clock, op, validation, extracted, parsedData, result, snapshots>>
    /\ UNCHANGED tableVars

\* result.logsImported is set and the final log of the import is called and
\* awaited
D_CallFinalLog ==
    /\ pc = "d_final_log"
    /\ result' = [result EXCEPT !.logsImported = counters.logsImported]
    /\ inflight' = Append(inflight, Pending("createLog", <<"f">>, 0))
    /\ pc' = "d_await_final_log"
    /\ UNCHANGED <<input, clock, op, validation, extracted, parsedData, i, counters, snapshots,
                   calls>>
    /\ UNCHANGED tableVars

\* the final log settles: its failure is only written to the console
D_FinalLog ==
    /\ pc = "d_await_final_log"
    /\ \E ok \in BOOLEAN : Settle(ok)
    /\ pc' = "d_notify_completed"
    /\ UNCHANGED <<input, clock, op, validation, extracted, parsedData, i, counters, result,
                   snapshots>>
    /\ UNCHANGED tableVars

\* the value of result.success at the end of the import
SuccessRule(errors, documentsImported) == Len(errors) = 0 \/ documentsImported > 0

\* phase 5: the completed snapshot, result.success, return result
D_NotifyCompleted ==
    /\ pc = "d_notify_completed"
    /\ \E threw \in BOOLEAN :
          /\ notifyProgress("completed", Len(parsedData.documents),
                            Len(parsedData.documents), threw)
          /\ IF threw
             THEN pc' = "d_catch" /\ UNCHANGED result
             ELSE /\ pc' = "returned"
                  /\ result' = [result EXCEPT
                        !.success = SuccessRule(result.errors, counters.documentsImported)]
    /\ UNCHANGED <<input, clock, op, validation, extracted, parsedData, i, counters, calls>>
    /\ UNCHANGED <<inflight, records, sessions, progressCallback, harvest>>

\* the catch of the whole import: the message is pushed, the error snapshot
\* is sent and result is returned; an exception of the observer here leaves
\* the function
D_Catch ==
    /\ pc = "d_catch"
    /\ result' = [result EXCEPT !.errors = Append(@, ErrorEntry("catch", "critical", 0))]
    /\ \E threw \in BOOLEAN :
          /\ notifyProgress("error", 0, 0, threw)
          /\ pc' = IF threw THEN "thrown" ELSE "returned"
    /\ UNCHANGED <<input, clock, op, validation, extracted, parsedData, i, counters, calls>>
    /\ UNCHANGED <<inflight, records, sessions, progressCallback, harvest>>

importHarvestData ==
    \/ D_Call \/ D_NotifyParsing \/ D_Parse \/ D_NotifyRejected \/ D_NotifyDocuments
    \/ D_CallCreateResult \/ D_CreateResult \/ D_NotifyDocument \/ D_NotifySite
    \/ D_CallUpdateSite \/ D_UpdateSite \/ D_NotifyLogs \/ D_CallCreateLog \/ D_CreateLog
    \/ D_CallFinalLog \/ D_FinalLog \/ D_NotifyCompleted \/ D_Catch

\* ------------------------------------------------------------------------
\* HarvestImportService.importHarvestResults(jsonContent, dataSource, config)
\* ------------------------------------------------------------------------
ResultsResult0 ==
    [success |-> FALSE, documentsImported |-> 0, documentsWithErrors |-> 0,
     logsImported |-> 0, errors |-> <<>>]

R_Call ==
    /\ pc = "idle"
    /\ op' = "importHarvestResults"
    /\ result' = ResultsResult0
    /\ pc' = "r_notify_validation"
    /\ UNCHANGED <<input, clock, validation, extracted, parsedData, i, counters, snapshots, calls>>
    /\ UNCHANGED <<inflight, records, sessions, progressCallback, harvest>>

\* phase 1: the validation snapshot
R_NotifyValidation ==
    /\ pc = "r_notify_validation"
    /\ \E threw \in BOOLEAN :
          /\ notifyProgress("validation", 0, 0, threw)
          /\ pc' = IF threw THEN "r_catch" ELSE "r_validate"
    /\ UNCHANGED <<input, clock, op, validation, extracted, parsedData, i, counters, result, calls>>
    /\ UNCHANGED <<inflight, records, sessions, progressCallback, harvest>>

\* the messages of the validator's errors, as result.errors holds them
ValidationMessages(errors) ==
    MapSeq(errors, LAMBDA e : ErrorEntry("validateImportJson", e.code, e.index + 1))

\* validateImportJson, then extractValidData; without any document the result
\* is returned at once
R_Validate ==
    /\ pc = "r_validate"
    /\ validation' = validateImportJson(input)
    /\ IF ~validation'.isValid
       THEN /\ result' = [result EXCEPT !.errors = ValidationMessages(validation'.errors)]
            /\ pc' = "r_notify_invalid"
            /\ UNCHANGED <<extracted, parsedData>>
       ELSE /\ extracted' = extractValidData(input, clock)
            /\ parsedData' = extracted'
            /\ IF Len(extracted'.documents) = 0
               THEN /\ result' = [result EXCEPT
                                     !.errors = Append(@, ErrorEntry("import", "no_documents", 0))]
                    /\ pc' = "returned"
               ELSE /\ pc' = "r_notify_directory"
                    /\ UNCHANGED result
    /\ UNCHANGED <<input, clock, op, i, counters, snapshots, calls>>
    /\ UNCHANGED <<inflight, records, sessions, progressCallback, harvest>>

\* the error snapshot of a failed validation, then return result
R_NotifyInvalid ==
    /\ pc = "r_notify_invalid"
    /\ \E threw \in BOOLEAN :
          /\ notifyProgress("error", 0, 0, threw)
          /\ pc' = IF threw THEN "r_catch" ELSE "returned"
    /\ UNCHANGED <<input, clock, op, validation, extracted, parsedData, i, counters, result, calls>>
    /\ UNCHANGED <<inflight, records, sessions, progressCallback, harvest>>

\* phases 2 and 3: the directory and downloading snapshots
R_NotifyDirectory ==
    /\ pc = "r_notify_directory"
    /\ \E threw \in BOOLEAN :
          /\ notifyProgress("directory", 0, Len(parsedData.documents), threw)
          /\ pc' = IF threw THEN "r_catch" ELSE "r_notify_downloading"
    /\ UNCHANGED <<input, clock, op, validation, extracted, parsedData, i, counters, result, calls>>
    /\ UNCHANGED <<inflight, records, sessions, progressCallback, harvest>>

R_NotifyDownloading ==
    /\ pc = "r_notify_downloading"
    /\ \E threw \in BOOLEAN :
          /\ notifyProgress("downloading", 0, Len(parsedData.documents), threw)
          /\ pc' = IF threw THEN "r_catch" ELSE "r_notify_document"
    /\ i' = 1
    /\ UNCHANGED <<input, clock, op, validation, extracted, parsedData, counters, result, calls>>
    /\ UNCHANGED <<inflight, records, sessions, progressCallback, harvest>>

\* the snapshot at the head of one iteration of the download loop
R_NotifyDocument ==
    /\ pc = "r_notify_document"
    /\ \E threw \in BOOLEAN :
          /\ notifyProgress("downloading", i - 1, Len(parsedData.documents), threw)
          /\ pc' = IF threw THEN "r_catch" ELSE "r_download"
    /\ UNCHANGED <<input, clock, op, validation, extracted, parsedData, i, counters, result, calls>>
    /\ UNCHANGED <<inflight, records, sessions, progressCallback, harvest>>

\* one document: counted as an error without a usable url_doc, else the HEAD
\* request is awaited and counted by its outcome; after the last document the
\* two counts are stored in result
R_Download ==
    /\ pc = "r_download"
    /\ LET u == parsedData.documents[i].url_doc
           usable == Truthy(u) /\ IsString(u) /\ ParsesAsUrl(u.v)
       IN \E ok \in (IF usable THEN BOOLEAN ELSE {FALSE}) :
             /\ calls' = IF usable THEN Append(calls, Call("fetch", u.v, i, ok)) ELSE calls
             /\ counters' = IF ok THEN [counters EXCEPT !.successCount = @ + 1]
                            ELSE [counters EXCEPT !.errorCount = @ + 1]
             /\ IF i + 1 > Len(parsedData.documents)
                THEN /\ pc' = "r_notify_saving"
                     /\ result' = [result EXCEPT !.documentsImported = counters'.successCount,
                                                 !.documentsWithErrors = counters'.errorCount]
                ELSE /\ pc' = "r_notify_document"
                     /\ UNCHANGED result
    /\ i' = i + 1
    /\ UNCHANGED <<input, clock, op, validation, extracted, parsedData, snapshots>>
    /\ UNCHANGED <<inflight, records, sessions, progressCallback, harvest>>

\* phase 4: the saving snapshot
R_NotifySaving ==
    /\ pc = "r_notify_saving"
    /\ \E threw \in BOOLEAN :
          /\ notifyProgress("saving", Len(parsedData.documents), Len(parsedData.documents), threw)
          /\ pc' = IF threw THEN "r_catch" ELSE "r_save"
    /\ UNCHANGED <<input, clock, op, validation, extracted, parsedData, i, counters, result, calls>>
    /\ UNCHANGED <<inflight, records, sessions, progressCallback, harvest>>

\* the one harvest_results row of the import: its failure is not caught
\* locally
R_CreateResult ==
    /\ pc = "r_save"
    /\ \E ok \in BOOLEAN :
          /\ calls' = Append(calls, Call("createResult", <<>>, 0, ok))
          /\ pc' = IF ~ok THEN "r_catch"
                   ELSE IF Len(parsedData.logs) = 0 THEN "r_site" ELSE "r_log"
    /\ i' = 1
    /\ UNCHANGED <<input, clock, op, validation, extracted, parsedData, counters, result, snapshots>>
    /\ UNCHANGED <<inflight, records, sessions, progressCallback, harvest>>

\* one log: createLog is awaited, its failure is only written to the console;
\* after the last one result.logsImported is set
R_CreateLog ==
    /\ pc = "r_log"
    /\ \E ok \in BOOLEAN :
          /\ calls' = Append(calls, Call("createLog", parsedData.logs[i].message.v, i, ok))
          /\ counters' = [counters EXCEPT !.logsImported = IF ok THEN @ + 1 ELSE @]
    /\ i' = i + 1
    /\ IF i + 1 > Len(parsedData.logs)
       THEN pc' = "r_site" /\ result' = [result EXCEPT !.logsImported = counters'.logsImported]
       ELSE pc' = "r_log" /\ UNCHANGED result
    /\ UNCHANGED <<input, clock, op, validation, extracted, parsedData, snapshots>>
    /\ UNCHANGED <<inflight, records, sessions, progressCallback, harvest>>

\* the update of the site, its failure only written to the console
R_UpdateSite ==
    /\ pc = "r_site"
    /\ IF Len(parsedData.obstacles_globaux) > 0 \/ Truthy(parsedData.recommandations)
       THEN \E ok \in BOOLEAN :
               calls' = Append(calls, Call("updateDataSource", <<>>, 0, ok))
       ELSE UNCHANGED calls
    /\ pc' = "r_final_log"
    /\ UNCHANGED <<input, clock, op, validation, extracted, parsedData, i, counters, result, snapshots>>
    /\ UNCHANGED <<inflight, records, sessions, progressCallback, harvest>>

\* the final log of the import
R_FinalLog ==
    /\ pc = "r_final_log"
    /\ \E ok \in BOOLEAN :
          calls' = Append(calls, Call("createLog", <<"f">>, 0, ok))
    /\ pc' = "r_notify_completed"
    /\ UNCHANGED <<input, clock, op, validation, extracted, parsedData, i, counters, result, snapshots>>
    /\ UNCHANGED <<inflight, records, sessions, progressCallback, harvest>>

\* phase 5: the completed snapshot, result.success = true, return result
R_NotifyCompleted ==
    /\ pc = "r_notify_completed"
    /\ \E threw \in BOOLEAN :
          /\ notifyProgress("completed", Len(parsedData.documents),
                            Len(parsedData.documents), threw)
          /\ IF threw
             THEN pc' = "r_catch" /\ UNCHANGED result
             ELSE pc' = "returned" /\ result' = [result EXCEPT !.success = TRUE]
    /\ UNCHANGED <<input, clock, op, validation, extracted, parsedData, i, counters, calls>>
    /\ UNCHANGED <<inflight, records, sessions, progressCallback, harvest>>

\* the catch of the whole import
R_Catch ==
    /\ pc = "r_catch"
    /\ result' = [result EXCEPT !.errors = Append(@, ErrorEntry("catch", "critical", 0))]
    /\ \E threw \in BOOLEAN :
          /\ notifyProgress("error", 0, 0, threw)
          /\ pc' = IF threw THEN "thrown" ELSE "returned"
    /\ UNCHANGED <<input, clock, op, validation, extracted, parsedData, i, counters, calls>>
    /\ UNCHANGED <<inflight, records, sessions, progressCallback, harvest>>

importHarvestResults ==
    \/ R_Call \/ R_NotifyValidation \/ R_Validate \/ R_NotifyInvalid \/ R_NotifyDirectory
    \/ R_NotifyDownloading \/ R_NotifyDocument \/ R_Download \/ R_NotifySaving
    \/ R_CreateResult \/ R_CreateLog \/ R_UpdateSite \/ R_FinalLog \/ R_NotifyCompleted
    \/ R_Catch

\* ------------------------------------------------------------------------
\* The validator called on its own (the file dialog validates a file as soon
\* as it is read)
\* ------------------------------------------------------------------------
CallValidateImportJson ==
    /\ pc = "idle"
    /\ validation' = validateImportJson(input)
    /\ UNCHANGED <<input, clock, op, pc, extracted, parsedData, i, counters, result,
                   snapshots, calls>>
    /\ UNCHANGED <<inflight, records, sessions, progressCallback, harvest>>

CallExtractValidData ==
    /\ pc = "idle"
    /\ extracted' = extractValidData(input, clock)
    /\ UNCHANGED <<input, clock, op, pc, validation, parsedData, i, counters, result,
                   snapshots, calls>>
    /\ UNCHANGED <<inflight, records, sessions, progressCallback, harvest>>

\* time passes: the clock values of the model
Clocks == {0, 1}
Tick ==
    /\ pc = "idle"
    /\ clock + 1 \in Clocks
    /\ clock' = clock + 1
    /\ UNCHANGED <<input, op, pc, validation, extracted, parsedData, i, counters, result,
                   snapshots, calls>>
    /\ UNCHANGED <<inflight, records, sessions, progressCallback, harvest>>

\* ------------------------------------------------------------------------
\* Specifications
\* ------------------------------------------------------------------------
\* the payloads of the imports: entries without a name
ImportTexts ==
    Texts(DocEntries({Undef}),
          {Undef, Arr(<<FullLog>>), Arr(<<FullLog, BareLog>>), Arr(<<FullLog, OtherLog>>),
           Arr(<<FullLog, NullLog>>)})

\* the texts handed to the validator and the extractor: entries without a
\* name, with a string name and with a numeric name
JsonTexts == Texts(DocEntries({Undef, Str(NameDup), Num(7)}), LogsValues)

Init == InitWith(ImportTexts)
Next == importHarvestData \/ importHarvestResults
Spec == Init /\ [][Next]_vars

InitJson == InitWith(JsonTexts)
NextJson == CallValidateImportJson \/ CallExtractValidData \/ Tick
SpecJson == InitJson /\ [][NextJson]_vars

\* ------------------------------------------------------------------------
\* Properties of JsonImportValidator (SpecJson)
\* ------------------------------------------------------------------------
\* the entries of the input's documents array
InputDocs ==
    IF input.t = "json" /\ IsArray(Field(input.v, "documents"))
    THEN Field(input.v, "documents").v ELSE <<>>

\* entry k has a url_doc that parses as an absolute URL
EntryHasUrl(k) ==
    LET u == Field(InputDocs[k], "url_doc")
    IN IsString(u) /\ Trim(u.v) # <<>> /\ ParsesAsUrl(u.v)

\* entry k is an object whose url_doc is a non-empty string
EntryHasString(k) ==
    LET u == Field(InputDocs[k], "url_doc") IN IsString(u) /\ Truthy(u)

\* entry k is an object whose url_doc is truthy and not a string
EntryHasNonString(k) ==
    LET u == Field(InputDocs[k], "url_doc") IN Truthy(u) /\ ~IsString(u)

\* the entries that are the first of their group: no earlier entry has the
\* same trimmed url_doc
FirstOfGroups ==
    SelectSeq([k \in 1..Len(InputDocs) |-> k],
        LAMBDA k : /\ EntryHasString(k)
                   /\ \A j \in 1..(k - 1) :
                         EntryHasString(j) =>
                            Trim(Field(InputDocs[j], "url_doc").v)
                               # Trim(Field(InputDocs[k], "url_doc").v))

\* the extracted documents are the first entries of the groups, in input order
KeepsFirstOfGroups ==
    /\ Len(extracted.documents) = Len(FirstOfGroups)
    /\ \A n \in 1..Len(FirstOfGroups) :
          LET entry == InputDocs[FirstOfGroups[n]] IN
          /\ extracted.documents[n].url_doc = Field(entry, "url_doc")
          /\ extracted.documents[n].document_name
                = OrElse(Field(entry, "document_name"), Str(<<>>))

\* no two extracted documents have the same trimmed url_doc
ExtractedUrlsDistinct ==
    \A j, k \in 1..Len(extracted.documents) :
        j < k => Trim(extracted.documents[j].url_doc.v) # Trim(extracted.documents[k].url_doc.v)

\* C1: every document extractValidData returns comes from an entry whose
\* url_doc is a string that parses as an absolute URL: an entry whose url_doc
\* is missing, not a string, blank or unparseable is never in the output.
C1_ExclusionInvariant ==
    extracted # Null =>
        \A n \in 1..Len(extracted.documents) :
            LET u == extracted.documents[n].url_doc
            IN IsString(u) /\ Trim(u.v) # <<>> /\ ParsesAsUrl(u.v)

\* C2 as stated: for every input text the extracted documents have distinct
\* trimmed url_doc, and of each group of entries sharing a trimmed url_doc
\* exactly the first is kept, in input order.
C2_DedupEveryInput ==
    extracted # Null => ExtractedUrlsDistinct /\ KeepsFirstOfGroups

\* C2 amended: the extracted documents always have distinct trimmed url_doc;
\* if some entry has a truthy url_doc that is not a string the extraction
\* fails and returns no document at all, and otherwise exactly the first entry
\* of each group sharing a trimmed url_doc is kept, in input order.
C2_DedupUnlessShapeFailure ==
    extracted # Null =>
        /\ ExtractedUrlsDistinct
        /\ IF \E k \in 1..Len(InputDocs) : EntryHasNonString(k)
           THEN extracted = EmptyExtract
           ELSE KeepsFirstOfGroups

\* two entries share a trimmed url_doc, written differently and with different
\* names, and only the first is in the output
C2_Witness ==
    /\ extracted # Null
    /\ Len(InputDocs) = 2
    /\ Field(InputDocs[1], "url_doc") = Str(UrlAPadded)
    /\ Field(InputDocs[2], "url_doc") = Str(UrlA)
    /\ Field(InputDocs[2], "document_name") = Str(NameDup)
    /\ Len(extracted.documents) = 1
    /\ extracted.documents[1].url_doc = Str(UrlAPadded)
    /\ extracted.documents[1].document_name = Str(<<>>)

\* C4: on every return path of validateImportJson isValid is false iff the
\* errors list is not empty, whatever the number of warnings.
C4_ValidIffNoErrors ==
    validation # Null => (validation.isValid = FALSE <=> Len(validation.errors) > 0)

\* a validation with warnings and no error is valid
C4_Witness ==
    /\ validation # Null
    /\ validation.isValid
    /\ Len(validation.warnings) > 1
    /\ Len(validation.errors) = 0

\* ------------------------------------------------------------------------
\* Properties of the imports (Spec)
\* ------------------------------------------------------------------------
InData == op = "importHarvestData"
InResults == op = "importHarvestResults"

\* the parsing snapshot was taken by the observer, so the payload was parsed
DataParsed == InData /\ pc \notin {"d_notify_parsing", "d_parse"} /\ ~snapshots[1].threw
ResultsValidated ==
    InResults /\ pc \notin {"r_notify_validation", "r_validate"} /\ ~snapshots[1].threw

\* the createResult calls that succeeded: the document records persisted
PersistedDocuments ==
    SelectSeq(calls, LAMBDA c : c.kind = "createResult" /\ c.ok)

\* the createResult calls of the documents loop
DocumentCalls == SelectSeq(calls, LAMBDA c : c.kind = "createResult")

\* the phases of the snapshots, in order
Phases == MapSeq(snapshots, LAMBDA p : p.phase)

\* C3: the document records one call of importHarvestData persists have
\* pairwise distinct trimmed url_doc.
C3_PersistedUrlsDistinct ==
    InData =>
        \A j, k \in 1..Len(PersistedDocuments) :
            j < k => Trim(PersistedDocuments[j].key) # Trim(PersistedDocuments[k].key)

\* what the parsing phase of importHarvestData pushes for a payload it rejects
DataRejection ==
    LET parseResult == parseOpenAIResponse(input.v) IN
    IF ~parseResult.success THEN <<parseResult.error>>
    ELSE validateParsedData(parseResult.data).errors

\* C5: an import whose parsing phase finds the payload invalid goes straight
\* to the error phase, has success = false and the validation messages at the
\* head of errors, and makes no persistence call.
C5_RejectedBeforePersistence ==
    /\ DataParsed =>
          LET rejection == DataRejection IN
          rejection # <<>> =>
             /\ PersistenceCalls = <<>> /\ inflight = <<>>
             /\ result.success = FALSE
             /\ pc \in {"d_notify_parse_error", "d_notify_invalid", "d_catch", "returned",
                        "thrown"}
             /\ SubSeq(result.errors, 1, Len(rejection)) = rejection
             /\ \A n \in 2..Len(Phases) : Phases[n] = "error"
    /\ (ResultsValidated /\ ~validation.isValid) =>
          /\ PersistenceCalls = <<>>
          /\ result.success = FALSE
          /\ pc \in {"r_notify_invalid", "r_catch", "returned", "thrown"}
          /\ SubSeq(result.errors, 1, Len(validation.errors))
                = ValidationMessages(validation.errors)
          /\ \A n \in 2..Len(Phases) : Phases[n] = "error"

\* both imports have returned a rejection: an unparseable url_doc for
\* importHarvestData, a text that is no JSON for importHarvestResults
C5_Witness ==
    /\ pc = "returned"
    /\ Phases = <<"parsing", "error">> \/ Phases = <<"validation", "error">>
    /\ Len(result.errors) = 1
    /\ result.errors[1].code \in {"invalid_url", "syntax"}

\* entry k of the input is excluded by parseDocument: no object, or without a
\* url_doc that is a non-blank string
EntryExcluded(k) ==
    LET u == Field(InputDocs[k], "url_doc")
    IN ~IsObject(InputDocs[k]) \/ ~Truthy(u) \/ ~IsString(u) \/ Trim(u.v) = <<>>

\* entry k has a url_doc that is a non-blank string and does not parse
EntryUnparseable(k) ==
    LET u == Field(InputDocs[k], "url_doc")
    IN IsString(u) /\ Trim(u.v) # <<>> /\ ~ParsesAsUrl(u.v)

\* the trimmed url_doc of the entries that have a parseable one, in order
ValidUrls ==
    MapSeq(SelectSeq([k \in 1..Len(InputDocs) |-> k], EntryHasUrl),
           LAMBDA k : Trim(Field(InputDocs[k], "url_doc").v))

\* the documents loop of importHarvestData is over
DocumentsDone ==
    InData /\ pc \in {"d_notify_site", "d_site", "d_await_site", "d_notify_logs", "d_log",
                      "d_await_log", "d_final_log", "d_await_final_log",
                      "d_notify_completed"}

\* C6 as stated: a payload with valid entries and an entry whose url_doc is
\* missing or invalid (unparseable included) is not rejected as a batch.
C6_NeverRejectsBatch ==
    (/\ DataParsed
     /\ parseOpenAIResponse(input.v).success
     /\ \E k \in 1..Len(InputDocs) : EntryHasUrl(k)
     /\ \E k \in 1..Len(InputDocs) : EntryExcluded(k) \/ EntryUnparseable(k))
    => pc # "d_notify_invalid"

\* C6 amended: in importHarvestData an entry that is no object or whose
\* url_doc is missing, not a string or blank is fatal to that entry only: the
\* documents loop attempts exactly the entries with a parseable url_doc, in
\* order; an entry whose url_doc is a non-blank string that does not parse as
\* a URL makes the whole batch rejected: nothing is persisted.
C6_MissingExcludedUnparseableRejects ==
    (DataParsed /\ parseOpenAIResponse(input.v).success) =>
        IF \E k \in 1..Len(InputDocs) : EntryUnparseable(k)
        THEN PersistenceCalls = <<>> /\ result.success = FALSE /\ ~DocumentsDone
        ELSE DocumentsDone => MapSeq(DocumentCalls, LAMBDA c : c.key) = ValidUrls

\* a payload with an entry without url_doc and a valid entry was imported:
\* one document persisted, the import a success
C6_Witness ==
    /\ InData /\ pc = "returned"
    /\ Len(InputDocs) = 2
    /\ EntryExcluded(1) /\ EntryHasUrl(2)
    /\ Len(PersistedDocuments) = 1
    /\ result.documentsImported = 1
    /\ result.success

PhaseRank(phase) ==
    CASE phase = "parsing" -> 1
      [] phase = "documents" -> 2
      [] phase = "site_update" -> 3
      [] phase = "logs" -> 4
      [] phase = "completed" -> 5
      [] phase = "error" -> 6

\* C7: the phases of the snapshots of one importHarvestData call never go
\* back, and no snapshot follows one whose phase is error or completed.
C7_LinearPhases ==
    InData =>
        \A j, k \in 1..Len(Phases) :
            j < k => /\ PhaseRank(Phases[j]) <= PhaseRank(Phases[k])
                     /\ Phases[j] \notin {"error", "completed"}

\* C8: when the documents loop of a batch of N documents is over, N
\* createResult calls were made, documentsImported is N minus the number k
\* of failed calls, and errors has k entries.
C8_ErrorsAreFailedCalls ==
    (InData /\ pc = "d_notify_site") =>
        LET n == Len(parsedData.documents)
            k == Len(SelectSeq(DocumentCalls, LAMBDA c : ~c.ok))
        IN /\ Len(DocumentCalls) = n
           /\ result.documentsImported = n - k
           /\ Len(result.errors) = k

\* the last snapshot of the call
LastPhase == Phases[Len(Phases)]

\* C9: an importHarvestData call that has reached the completed phase returns
\* success = (errors is empty or documentsImported > 0); one that ends in the
\* error phase returns success = false.
C9_SuccessRule ==
    (InData /\ pc = "returned") =>
        /\ (\E n \in 1..Len(Phases) : Phases[n] = "completed") =>
              result.success = (Len(result.errors) = 0 \/ result.documentsImported > 0)
        /\ LastPhase = "error" => result.success = FALSE

\* the payload {"documents":[]}
EmptyBatchText ==
    [t |-> "json", v |-> Envelope(Arr(<<>>), Undef, Undef, Undef)]

EmptyBatchValidates ==
    LET v == validateImportJson(EmptyBatchText)
    IN /\ v.isValid
       /\ \E n \in 1..Len(v.warnings) :
             v.warnings[n].field = "documents" /\ v.warnings[n].code = "empty"

ObserverThrew == \E n \in 1..Len(snapshots) : snapshots[n].threw

\* C11: importHarvestData never leaves with an exception; once the observer
\* or a collaborator has thrown, the call that returns has ended in the error
\* phase with the message in errors.
C11_NeverPropagates ==
    InData =>
        /\ pc # "thrown"
        /\ (pc = "returned" /\ ObserverThrew) =>
              LastPhase = "error" /\ result.errors # <<>>

\* the updateDataSource calls of the import, settled or awaited
SiteCalls ==
    SelectSeq(calls, LAMBDA c : c.kind = "updateDataSource")
        \o SelectSeq(inflight, LAMBDA c : c.kind = "updateDataSource")

\* the site_update step of importHarvestData is over
SiteStepDone ==
    InData /\ pc \in {"d_await_site", "d_notify_logs", "d_log", "d_await_log", "d_final_log",
                      "d_await_final_log", "d_notify_completed"}

\* the update of the site has failed
SiteUpdateFailed ==
    \E n \in 1..Len(calls) : calls[n].kind = "updateDataSource" /\ ~calls[n].ok

\* the entries of result.errors that do not come from the update of the site
ErrorsButSite == SelectSeq(result.errors, LAMBDA e : e.src # "site")

\* a failed update of the site is not routed to the catch of the import, and
\* the success returned from the completed phase is the one of the run in
\* which the update succeeds
SiteFailureIsNotFatal ==
    /\ (InData /\ SiteUpdateFailed) =>
          /\ pc # "d_catch" \/ ObserverThrew
          /\ pc = "d_notify_logs" \/ \E n \in 1..Len(Phases) : Phases[n] = "logs"
    /\ (InData /\ pc = "returned" /\ LastPhase = "completed") =>
          result.success = SuccessRule(ErrorsButSite, result.documentsImported)

\* C12 as stated: one update of the site is issued iff the batch has
\* obstacles_globaux or recommandations that are not null, and its failure
\* does not fail the batch.
C12_UpdateIffNotNull ==
    /\ SiteStepDone =>
          /\ Len(SiteCalls) <= 1
          /\ Len(SiteCalls) = 1 <=>
                (Len(parsedData.obstacles_globaux) > 0 \/ parsedData.recommandations # Null)
    /\ SiteFailureIsNotFatal

\* C12 amended: one update of the site is issued iff the batch has
\* obstacles_globaux or recommandations that are not empty (recommandations
\* that are blank in the payload are the empty string in the batch, and no
\* update is issued for them); a failure of the update is not routed to the
\* catch: the logs snapshot follows, and the success returned from the
\* completed phase is the same as when the update succeeds.
C12_UpdateIffNotEmpty ==
    /\ SiteStepDone =>
          /\ Len(SiteCalls) <= 1
          /\ Len(SiteCalls) = 1 <=>
                (\/ Len(parsedData.obstacles_globaux) > 0
                 \/ (parsedData.recommandations # Null /\ parsedData.recommandations.v # <<>>))
    /\ SiteFailureIsNotFatal

\* an import whose update of the site failed has completed as a success
C12_Witness ==
    /\ InData /\ pc = "returned"
    /\ SiteUpdateFailed
    /\ LastPhase = "completed"
    /\ result.success
    /\ \E n \in 1..Len(result.errors) : result.errors[n].src = "site"

\* the createLog calls of the logs loop that have settled (the final log of
\* the import has index 0)
LogCalls == SelectSeq(calls, LAMBDA c : c.kind = "createLog" /\ c.index > 0)

\* the logs loop of the import is over
LogsDone ==
    \/ InData /\ pc \in {"d_await_final_log", "d_notify_completed"}
    \/ InResults /\ pc \in {"r_site", "r_final_log", "r_notify_completed"}
    \/ pc = "returned" /\ LastPhase = "completed"

\* after the logs loop every log of the batch was attempted, in order, and
\* logsImported counts the inserts that succeeded
LogsAllAttempted ==
    LogsDone =>
        /\ MapSeq(LogCalls, LAMBDA c : c.key)
              = MapSeq(parsedData.logs, LAMBDA l : l.message.v)
        /\ \A n \in 1..Len(LogCalls) : LogCalls[n].index = n
        /\ result.logsImported = Len(SelectSeq(LogCalls, LAMBDA c : c.ok))

\* a step of the logs loop leaves errors and success as they are and stays in
\* the import's normal course
LogStepKeepsErrors ==
    pc \in {"d_log", "d_await_log", "r_log"} =>
        /\ result'.errors = result.errors
        /\ result'.success = result.success
        /\ pc' \in {"d_log", "d_await_log", "d_final_log", "r_log", "r_site"}

\* C13: in the logs phase every log of the batch is attempted in order; a
\* failed insert adds nothing to errors, does not stop the remaining logs and
\* does not change success; logsImported is the number of inserts that
\* succeeded.
C13_LogsBestEffort == [](LogsAllAttempted) /\ [][LogStepKeepsErrors]_vars

\* an import of two logs, the first insert failed and the second succeeded,
\* has completed without any error
C13_Witness ==
    /\ InData /\ pc = "returned" /\ LastPhase = "completed"
    /\ Len(LogCalls) = 2
    /\ ~LogCalls[1].ok /\ LogCalls[2].ok
    /\ result.logsImported = 1
    /\ result.errors = <<>>
    /\ result.success

\* the snapshots of a phase
SnapshotsOf(phase) == SelectSeq(snapshots, LAMBDA p : p.phase = phase)

\* C14: after the documents loop of importHarvestData the observer has
\* received, after the snapshot that opens the phase, one documents snapshot
\* per document, with documentsProcessed = 1, 2, ..., whether createResult
\* succeeded or failed; after the logs loop it has received one logs snapshot
\* per log after the one that opens the phase.
C14_SnapshotPerItem ==
    /\ (InData /\ pc = "d_notify_site") =>
          MapSeq(Tail(SnapshotsOf("documents")), LAMBDA p : p.documentsProcessed)
             = [n \in 1..Len(parsedData.documents) |-> n]
    /\ (InData /\ pc = "d_final_log") =>
          Len(SnapshotsOf("logs")) = 1 + Len(parsedData.logs)

\* the persistence calls issued so far, in the order they were issued: the
\* settled ones, then the awaited ones
Issued ==
    MapSeq(PersistenceCalls, LAMBDA c : Pending(c.kind, c.key, c.index)) \o inflight

\* the place of a call in the course of the import: the documents, the site,
\* the logs, the final log
CallRank(c) ==
    CASE c.kind = "createResult" -> 1
      [] c.kind = "updateDataSource" -> 2
      [] c.kind = "createLog" /\ c.index > 0 -> 3
      [] OTHER -> 4

RecentLimit == 100

\* the id of the row inserted n-th: a uuid, one per row
Uuid(n) == Str(<<n>>)

\* a row of harvest_results; own: its data_source_id is the dialog's websiteId
Row(id, own, data, metadata) == [id |-> id, own |-> own, data |-> data, metadata |-> metadata]
NoRow == Row(Null, FALSE, Null, Null)

\* the row of the harvest whose payload is the input
BatchRow == Row(Uuid(1), TRUE, input.v, Null)

\* the row createResult inserts for one document of harvestResult
DocumentRow(harvestResult, doc, rows) ==
    Row(Uuid(Len(rows) + 1), TRUE,
        Obj([document |-> Str(doc.url_doc), source_harvest_id |-> harvestResult.id]),
        Obj([original_harvest_id |-> harvestResult.id, document_url |-> Str(doc.url_doc)]))

\* the row importHarvestResults inserts for a file imported into another site
FileRow(rows) ==
    Row(Uuid(Len(rows) + 1), FALSE, Obj([documents |-> Arr(<<>>)]),
        Obj([total_documents |-> Num(0)]))

\* getAllResults without its limit: every row, newest first
getAllResults_NoLimit(rows, limit) ==
    LET n == Len(rows)
    IN [k \in 1..n |-> rows[n - k + 1]]

\* HarvestResultService.getAllResults(limit): newest first, at most limit rows
getAllResults(rows, limit) ==
    LET n == Len(rows)
        m == IF n < limit THEN n ELSE limit
    IN [k \in 1..m |-> rows[n - k + 1]]

\* HarvestResultService.getLatestResultByDataSource(dataSourceId): the newest
\* row of the site, NoRow (null) when it has none
getLatestResultByDataSource(rows) ==
    LET own == {k \in 1..Len(rows) : rows[k].own}
    IN IF own = {} THEN NoRow
       ELSE rows[CHOOSE k \in own : \A j \in own : j <= k]

\* checkIfAlreadyImported without its catch: the failure of the query leaves it
checkIfAlreadyImported_NoCatch(harvestResultId, rows, ok) ==
    IF ~ok THEN "threw"
    ELSE LET existingResults == getAllResults(rows, RecentLimit)
         IN IF \E k \in 1..Len(existingResults) :
                   Field(existingResults[k].metadata, "original_harvest_id") = harvestResultId
            THEN "true" ELSE "false"

\* checkIfAlreadyImported(harvestResultId): "true" or "false" (it has no throw
\* outside its try); ok: getAllResults resolved
checkIfAlreadyImported(harvestResultId, rows, ok) ==
    IF ~ok THEN "false"
    ELSE LET existingResults == getAllResults(rows, RecentLimit)
         IN IF \E k \in 1..Len(existingResults) :
                   Field(existingResults[k].metadata, "original_harvest_id") = harvestResultId
            THEN "true" ELSE "false"

\* the dialogs open on the site's harvest, each opened once
Sessions == {1, 2}

ClosedSession ==
    [pc |-> "closed", harvestResult |-> NoRow, alreadyImported |-> FALSE,
     lookup |-> "none", verdict |-> "none", documents |-> <<>>, i |-> 0,
     documentsImported |-> 0, errors |-> <<>>]

\* loadHarvestResult up to the check: the newest row of the site is fetched
S_Load(s) ==
    /\ sessions[s].pc = "closed"
    /\ \E ok \in BOOLEAN :
          LET result_ == getLatestResultByDataSource(records) IN
          sessions' = [sessions EXCEPT ![s] =
              IF ~ok THEN [@ EXCEPT !.pc = "load_failed"]
              ELSE IF result_ = NoRow THEN [@ EXCEPT !.pc = "no_result"]
              ELSE [@ EXCEPT !.pc = "checking", !.harvestResult = result_]]
    /\ UNCHANGED <<input, clock, records>>
    /\ UNCHANGED importVars

\* the rest of loadHarvestResult: checkIfAlreadyImported(result.id) and
\* setAlreadyImported; an exception of the check would reach the catch
S_Check(s) ==
    /\ sessions[s].pc = "checking"
    /\ \E ok \in BOOLEAN :
          LET imported == checkIfAlreadyImported(sessions[s].harvestResult.id, records, ok) IN
          sessions' = [sessions EXCEPT ![s] =
              IF imported = "threw"
              THEN [@ EXCEPT !.pc = "load_failed", !.harvestResult = NoRow,
                             !.lookup = IF ok THEN "ok" ELSE "failed", !.verdict = imported]
              ELSE [@ EXCEPT !.pc = "loaded", !.alreadyImported = (imported = "true"),
                             !.lookup = IF ok THEN "ok" ELSE "failed", !.verdict = imported]]
    /\ UNCHANGED <<input, clock, records>>
    /\ UNCHANGED importVars

\* S_StartImport that also waits for the other dialogs' imports of the row
S_StartImport_Locked(s) ==
    /\ sessions[s].pc = "loaded"
    /\ ~sessions[s].alreadyImported
    /\ \A t \in Sessions \ {s} :
          ~(sessions[t].pc \in {"importing", "done"}
            /\ sessions[t].harvestResult.id = sessions[s].harvestResult.id)
    /\ LET parseResult == parseOpenAIResponse(sessions[s].harvestResult.data)
           rejected == IF parseResult.success
                       THEN ~validateParsedData(parseResult.data).isValid ELSE TRUE
       IN sessions' = [sessions EXCEPT ![s] =
              IF rejected THEN [@ EXCEPT !.pc = "done"]
              ELSE [@ EXCEPT !.pc = "importing", !.documents = parseResult.data.documents,
                             !.i = 1]]
    /\ UNCHANGED <<input, clock, records>>
    /\ UNCHANGED importVars

\* the import button (enabled unless importing or alreadyImported) and
\* importHarvestData up to its documents loop
S_StartImport(s) ==
    /\ sessions[s].pc = "loaded"
    /\ ~sessions[s].alreadyImported
    /\ LET parseResult == parseOpenAIResponse(sessions[s].harvestResult.data)
           rejected == IF parseResult.success
                       THEN ~validateParsedData(parseResult.data).isValid ELSE TRUE
       IN sessions' = [sessions EXCEPT ![s] =
              IF rejected THEN [@ EXCEPT !.pc = "done"]
              ELSE [@ EXCEPT !.pc = "importing", !.documents = parseResult.data.documents,
                             !.i = 1]]
    /\ UNCHANGED <<input, clock, records>>
    /\ UNCHANGED importVars

\* one pass of the documents loop: createResult inserts the document's row or
\* fails; after the last document the result's success sets alreadyImported
S_CreateResult(s) ==
    /\ sessions[s].pc = "importing"
    /\ \E ok \in BOOLEAN :
          LET me == sessions[s]
              doc == me.documents[me.i]
              skipped == Trim(doc.url_doc) = <<>>
              persisted == ~skipped /\ ok
              imported == IF persisted THEN me.documentsImported + 1 ELSE me.documentsImported
              errors == IF skipped \/ ok THEN me.errors
                        ELSE Append(me.errors, ErrorEntry("document", "persistence", me.i))
              last == me.i = Len(me.documents)
          IN /\ records' = IF persisted
                           THEN Append(records, DocumentRow(me.harvestResult, doc, records))
                           ELSE records
             /\ sessions' = [sessions EXCEPT ![s] =
                    [@ EXCEPT !.documentsImported = imported, !.errors = errors,
                              !.i = IF last THEN @ ELSE @ + 1,
                              !.pc = IF last THEN "done" ELSE "importing",
                              !.alreadyImported =
                                  IF last /\ SuccessRule(errors, imported) THEN TRUE ELSE @]]
    /\ UNCHANGED <<input, clock>>
    /\ UNCHANGED importVars

\* a file import into another site inserts its row; only rows newer than an
\* imported document can change what a check reads, and RecentLimit of them
\* take every row before them out of its reach
FileImport ==
    /\ \E k \in 1..Len(records) : Field(records[k].metadata, "original_harvest_id") # Undef
    /\ Cardinality({k \in 1..Len(records) : ~records[k].own}) < RecentLimit
    /\ records' = Append(records, FileRow(records))
    /\ UNCHANGED <<input, clock, sessions>>
    /\ UNCHANGED importVars

\* the payload of the site's harvest: one document
IdemTexts == {[t |-> "json", v |-> Envelope(Arr(<<Obj([url_doc |-> Str(UrlA),
                                                        document_name |-> Undef])>>),
                                            Undef, Undef, Undef)]}

InitIdem ==
    /\ input \in IdemTexts
    /\ clock = 0
    /\ op = "none"
    /\ pc = "idle"
    /\ validation = Null
    /\ extracted = Null
    /\ parsedData = Null
    /\ i = 0
    /\ counters = NoCounters
    /\ result = Null
    /\ snapshots = <<>>
    /\ calls = <<>>
    /\ inflight = <<>>
    /\ records \in {NoRecords, <<BatchRow>>}
    /\ sessions = [s \in Sessions |-> ClosedSession]
    /\ progressCallback = Registered
    /\ harvest = NoHarvest
NextIdem ==
    \/ \E s \in Sessions : S_Load(s) \/ S_Check(s) \/ S_StartImport(s) \/ S_CreateResult(s)
    \/ FileImport
SpecIdem == InitIdem /\ [][NextIdem]_vars


\* ------------------------------------------------------------------------
\* Properties of the import guard (SpecIdem)
\* ------------------------------------------------------------------------
\* the dialogs whose check has returned
Checked == {s \in Sessions : sessions[s].lookup # "none"}

\* C16: checkIfAlreadyImported never throws: whenever its query of the table
\* fails it returns false, so that loadHarvestResult goes on with the row
\* loaded and alreadyImported false, and whenever the query succeeds it
\* returns a boolean
C16_CheckNeverThrows ==
    \A s \in Checked :
        /\ sessions[s].verdict \in {"true", "false"}
        /\ sessions[s].pc # "load_failed"
        /\ sessions[s].harvestResult # NoRow
        /\ sessions[s].lookup = "failed" => sessions[s].verdict = "false"
        /\ sessions[s].lookup = "failed" /\ sessions[s].pc = "loaded"
               => ~sessions[s].alreadyImported

\* C16 witness: a check whose query failed has returned false, while the table
\* holds a document imported from the row it was asked about
C16_Witness ==
    \E s \in Sessions :
        /\ sessions[s].lookup = "failed"
        /\ sessions[s].verdict = "false"
        /\ sessions[s].pc = "loaded"
        /\ \E k \in 1..Len(records) :
              Field(records[k].metadata, "original_harvest_id") = sessions[s].harvestResult.id


\* a row among the RecentLimit newest rows of the table refers to id as the
\* harvest it was imported from
InWindow(id, rows) ==
    \E k \in 1..Len(rows) :
        /\ Len(rows) - k < RecentLimit
        /\ Field(rows[k].metadata, "original_harvest_id") = id

\* a step in which the check of dialog s returns after a successful query
CheckReturns(s) ==
    /\ sessions[s].pc = "checking"
    /\ sessions'[s].pc # "checking"
    /\ sessions'[s].lookup = "ok"

\* the check returns true exactly when the row it was asked about is referred
\* to within the window, as the table stands when it returns
VerdictIsWindow ==
    \A s \in Sessions :
        CheckReturns(s) =>
            (sessions'[s].verdict = "true" <=> InWindow(sessions[s].harvestResult.id, records))

\* a check returned true only for a row from which some import persisted a
\* document
TrueOnlyIfPersisted ==
    \A s \in Sessions :
        sessions[s].verdict = "true" =>
            \E t \in Sessions :
                /\ sessions[t].harvestResult.id = sessions[s].harvestResult.id
                /\ sessions[t].documentsImported > 0

\* C17: when its query succeeds, checkIfAlreadyImported(id) returns true if and
\* only if one of the 100 most recently harvested rows has
\* metadata.original_harvest_id equal to id, and never for an id from which no
\* document was persisted
C17_TrueIffInWindow == [][VerdictIsWindow]_vars /\ []TrueOnlyIfPersisted

\* C17 witness: a check returned true for a row another dialog imported from,
\* the imported document still being among the 100 newest of a longer table
C17_Witness ==
    \E s \in Sessions :
        /\ sessions[s].verdict = "true"
        /\ sessions[s].lookup = "ok"
        /\ sessions[s].documentsImported = 0
        /\ Len(records) > RecentLimit
        /\ InWindow(sessions[s].harvestResult.id, records)


\* the rows imported from the row id, as positions in the table
ImportedFrom(id) ==
    {k \in 1..Len(records) : Field(records[k].metadata, "original_harvest_id") = id}

\* the documents the dialogs holding the row id have persisted so far
RECURSIVE PersistedBy(_, _)
PersistedBy(S, id) ==
    IF S = {} THEN 0
    ELSE LET s == CHOOSE x \in S : TRUE
         IN (IF sessions[s].harvestResult.id = id THEN sessions[s].documentsImported ELSE 0)
            + PersistedBy(S \ {s}, id)

\* C18: the check and the import are check-then-act with no lock: a dialog
\* whose check said "not imported" can start its import whatever the other
\* dialogs have done since, and every document an import persists is a row of
\* its own, so that two dialogs on the same harvest row persist its documents
\* twice
C18_CheckThenAct ==
    /\ \A s \in Sessions :
          sessions[s].pc = "loaded" /\ ~sessions[s].alreadyImported
              => ENABLED S_StartImport(s)
    /\ \A s \in Sessions :
          sessions[s].harvestResult # NoRow =>
              Cardinality(ImportedFrom(sessions[s].harvestResult.id))
                  = PersistedBy(Sessions, sessions[s].harvestResult.id)

\* C18 witness: both dialogs hold the same harvest row, both checks succeeded
\* and returned false, both imports have run, and the table holds the row's
\* document twice
C18_Witness ==
    /\ \A s \in Sessions :
          /\ sessions[s].harvestResult.id = Uuid(1)
          /\ sessions[s].lookup = "ok"
          /\ sessions[s].verdict = "false"
          /\ sessions[s].pc = "done"
          /\ sessions[s].documentsImported = 1
    /\ \E j, k \in ImportedFrom(Uuid(1)) :
          /\ j < k
          /\ Field(records[j].metadata, "document_url")
                = Field(records[k].metadata, "document_url")


\* ------------------------------------------------------------------------
\* More properties of JsonImportValidator.extractValidData (SpecJson)
\* ------------------------------------------------------------------------
\* the text does not parse, or its value makes the extraction fail
ShapeFailure ==
    \/ input = BadText
    \/ input.t = "json" /\ input.v = Null
    \/ \E k \in 1..Len(InputDocs) : EntryHasNonString(k)

\* C19: extractValidData never throws: it always returns a result with the
\* four fields, and when the text does not parse as JSON or its shape makes
\* the extraction fail (top-level null, a truthy url_doc that is no string) the
\* result is exactly the all-empty one
C19_NeverThrows ==
    extracted # Null =>
        /\ DOMAIN extracted = {"documents", "logs", "obstacles_globaux", "recommandations"}
        /\ ShapeFailure => extracted = EmptyExtract

\* C19 witness: the all-empty result was returned for a text whose documents
\* hold an entry with a numeric url_doc next to one with a string url_doc
C19_Witness ==
    /\ extracted = EmptyExtract
    /\ \E k \in 1..Len(InputDocs) : EntryHasNonString(k)
    /\ \E k \in 1..Len(InputDocs) : EntryHasString(k)

\* C20: two calls of extractValidData on the same text return deep-equal
\* results whatever happens between them: a later call never changes the value
\* an earlier call returned for the text
C20_SameTextSameResult ==
    [][extracted # Null /\ extracted' # Null => extracted' = extracted]_vars


\* the optional text fields of a document entry, as the payload names them
TextFields ==
    {"document_name", "filename", "date_edition", "auteurs", "langue", "resume", "statut",
     "issue_number", "format", "type_document", "contient_texte", "notes", "obstacles"}

\* the field F of the extracted document d holds the value v
HasDefault(d, F, v) == F \in DOMAIN d /\ d[F] = v

\* C21: every document produced by extractValidData has each optional field
\* its entry lacks present with the documented default: the empty string for
\* the text fields (the entries of the model lack all of them but
\* document_name), false for pattern_verified and the year of the call for
\* annee
C21_DefaultsPresent ==
    extracted # Null =>
        \A k \in 1..Len(extracted.documents) :
            LET d == extracted.documents[k] IN
            /\ \A F \in TextFields \ {"document_name"} : HasDefault(d, F, Str(<<>>))
            /\ \/ HasDefault(d, "document_name", Str(<<>>))
               \/ \E j \in 1..Len(InputDocs) :
                     /\ Truthy(Field(InputDocs[j], "document_name"))
                     /\ HasDefault(d, "document_name", Field(InputDocs[j], "document_name"))
            /\ HasDefault(d, "pattern_verified", FALSE)
            /\ \E c \in Clocks : c <= clock /\ HasDefault(d, "annee", Num(FullYear(c)))


\* ------------------------------------------------------------------------
\* More properties of JsonImportValidator.validateImportJson (SpecJson)
\* ------------------------------------------------------------------------
\* the trimmed url_doc of entry k, <<>> if it has no string url_doc
EntryKey(k) ==
    LET u == Field(InputDocs[k], "url_doc")
    IN IF IsString(u) THEN Trim(u.v) ELSE <<>>

\* the 1-based positions of the entries sharing the trimmed url_doc of entry k,
\* in ascending order
GroupOf(k) ==
    SelectSeq([j \in 1..Len(InputDocs) |-> j], LAMBDA j : EntryKey(j) = EntryKey(k))

\* the places of the duplicate findings in the errors of the report
DuplicateErrors ==
    {n \in 1..Len(validation.errors) : validation.errors[n].code = "duplicate"}

\* C22: validateImportJson reports duplicates over the whole documents array
\* before the per-entry findings: every group of two or more entries sharing
\* a trimmed url_doc has exactly one error finding on url_doc listing all the
\* 1-based positions of the group, an url_doc occurring once has none, and a
\* report with such a finding has isValid false
C22_OneFindingPerGroup ==
    validation # Null =>
        /\ \A n \in DuplicateErrors :
              LET f == validation.errors[n] IN
              /\ f.severity = "error"
              /\ f.field = "url_doc"
              /\ Len(f.positions) >= 2
              /\ f.positions = GroupOf(f.positions[1])
              /\ \A m \in 1..Len(validation.errors) : m \notin DuplicateErrors => n < m
        /\ \A k \in 1..Len(InputDocs) :
              EntryKey(k) # <<>> =>
                  Cardinality({n \in DuplicateErrors :
                                  \E p \in 1..Len(validation.errors[n].positions) :
                                      validation.errors[n].positions[p] = k})
                      = IF Len(GroupOf(k)) >= 2 THEN 1 ELSE 0
        /\ DuplicateErrors # {} => ~validation.isValid

\* C22 witness: two entries whose url_doc differ only by surrounding blanks
\* are reported as one group at positions 1 and 2, and the report is invalid
\* although each entry is valid by itself
C22_Witness ==
    /\ validation # Null
    /\ Len(InputDocs) = 2
    /\ Field(InputDocs[1], "url_doc") = Str(UrlAPadded)
    /\ Field(InputDocs[2], "url_doc") = Str(UrlA)
    /\ Len(validation.errors) = 1
    /\ validation.errors[1].code = "duplicate"
    /\ validation.errors[1].positions = <<1, 2>>
    /\ validation.summary.validDocuments = 2
    /\ ~validation.isValid


\* the report names entry k of the documents array in an error
EntryReported(k) ==
    \E n \in 1..Len(validation.errors) :
        /\ validation.errors[n].index = k - 1
        /\ validation.errors[n].field \in {"document", "url_doc"}

\* C23: the field validator never throws, whatever the types of an entry's
\* optional fields: the report of a text that parses holds no exception turned
\* into a syntax error, and it covers every entry, so that each entry without
\* a valid url_doc is named in an error of its own
C23_ValidatorNeverThrows ==
    validation # Null /\ input.t = "json" =>
        /\ \A n \in 1..Len(validation.errors) : validation.errors[n].field # "json"
        /\ \A k \in 1..Len(InputDocs) : ~EntryHasUrl(k) => EntryReported(k)


\* ------------------------------------------------------------------------
\* The observer of the imports (SpecObs): an import of a payload with one
\* document with one log or with obstacles, of the empty batch or of an object
\* without documents, while a second observer is registered with either
\* class at any moment
\* ------------------------------------------------------------------------
ObsTexts ==
    {EmptyBatchText,
     [t |-> "json",
      v |-> Envelope(Arr(<<Obj([url_doc |-> Str(UrlA), document_name |-> Undef])>>),
                     Arr(<<FullLog>>), Undef, Undef)],
     [t |-> "json",
      v |-> Envelope(Arr(<<Obj([url_doc |-> Str(UrlA), document_name |-> Undef])>>),
                     Undef, Arr(<<Str(<<"x">>), Str(Blank)>>), Undef)],
     [t |-> "json", v |-> Envelope(Undef, Undef, Undef, Undef)]}

InitObs == InitWith(ObsTexts)
NextObs == importHarvestData \/ importHarvestResults \/ setProgressCallback
SpecObs == InitObs /\ [][NextObs]_vars

\* a step that emits a snapshot hands it to the observer registered with the
\* class of the running import at that moment
DeliveredToRegistered ==
    Len(snapshots') > Len(snapshots) =>
        snapshots'[Len(snapshots')].to = progressCallback[op]

\* once a snapshot went to the second observer no later one goes to the first
NeverBackToFirst ==
    \A m, n \in 1..Len(snapshots) :
        m < n /\ snapshots[m].to = "cb2" => snapshots[n].to = "cb2"

\* C24: each importer class holds one observer and the last registration
\* wins: every snapshot is delivered to the observer registered when it is
\* emitted and to no other, also in an import that started under the earlier
\* observer
C24_LastRegistrationWins ==
    [][DeliveredToRegistered]_vars /\ []NeverBackToFirst

\* C24 witness: an import has returned whose first snapshot went to the first
\* observer and whose later snapshots, the last one included, went to the
\* second, registered while the import was in flight
C24_Witness ==
    /\ pc = "returned"
    /\ Len(snapshots) >= 3
    /\ snapshots[1].to = "cb1"
    /\ snapshots[Len(snapshots)].to = "cb2"
    /\ progressCallback[op] = "cb2"


\* ------------------------------------------------------------------------
\* OpenAIHarvestingService: harvestMultipleWebsites, harvestWebsite,
\* callOpenAIWithRetry
\* ------------------------------------------------------------------------
\* the sites of one call of harvestMultipleWebsites; a site is the truth of
\* "it has a generated prompt"
MaxSites == 2

\* callOpenAIWithRetry's maxRetries (default), delays and the pause between
\* two sites, in milliseconds
MaxRetries == 3
Delays == <<2000, 5000, 10000>>
SitePause == 1000

everythingButHarvest ==
    <<input, clock, op, pc, validation, extracted, parsedData, i, counters, result,
      snapshots, calls, inflight, records, sessions, progressCallback>>

\* the call before its first step. k: the 1-based number of the site in hand;
\* results: the OpenAIHarvestResult pushed so far, as their success;
\* attempt: the loop variable of callOpenAIWithRetry; apiCalls, waits: the
\* calls of the API and the delays waited in the current callOpenAIWithRetry;
\* retry: how it ended; events: the start and the end of each harvestWebsite
\* and the pauses, in order
HarvestOf(sites) ==
    [pc |-> "h_called", sites |-> sites, k |-> 0, results |-> <<>>, attempt |-> 0,
     apiCalls |-> 0, waits |-> <<>>, retry |-> "none", events |-> <<>>]

Event(e, site) == [e |-> e, site |-> site]

\* harvestWebsite leaves its try with an exception: the catch is entered
H_Throw(h) == [h EXCEPT !.pc = "h_catch"]

\* harvestWebsite returns its result to the loop of harvestMultipleWebsites,
\* which pushes it
H_Return(h, success) ==
    [h EXCEPT !.results = Append(@, success), !.events = Append(@, Event("end", h.k)),
              !.pc = IF h.k < Len(h.sites) THEN "h_pause" ELSE "h_returned"]

\* harvestMultipleWebsites is called: the loop takes the first site, or
\* returns the empty list
H_Call ==
    /\ harvest.pc = "h_called"
    /\ harvest' = IF harvest.sites = <<>> THEN [harvest EXCEPT !.pc = "h_returned"]
                  ELSE [harvest EXCEPT !.pc = "h_site", !.k = 1]
    /\ UNCHANGED everythingButHarvest

\* harvestWebsite(dataSources[i]) is called: a site without generated prompt
\* throws inside the try
H_Site ==
    /\ harvest.pc = "h_site"
    /\ LET h == [harvest EXCEPT !.events = Append(@, Event("start", harvest.k))] IN
       harvest' = IF harvest.sites[harvest.k] THEN [h EXCEPT !.pc = "h_log_begin"]
                  ELSE H_Throw(h)
    /\ UNCHANGED everythingButHarvest

\* await HarvestLogService.logInfo(begin): createLog succeeds or throws
H_LogBegin ==
    /\ harvest.pc = "h_log_begin"
    /\ \E ok \in BOOLEAN :
          harvest' = IF ok
                     THEN [harvest EXCEPT !.pc = "h_system_prompt", !.attempt = 0,
                                          !.apiCalls = 0, !.waits = <<>>, !.retry = "none"]
                     ELSE H_Throw(harvest)
    /\ UNCHANGED everythingButHarvest

\* callOpenAIWithRetry: getClient and getSystemPrompt before the loop
H_SystemPrompt ==
    /\ harvest.pc = "h_system_prompt"
    /\ \E ok \in BOOLEAN :
          harvest' = IF ok THEN [harvest EXCEPT !.pc = "h_attempt"]
                     ELSE H_Throw([harvest EXCEPT !.retry = "prompt_threw"])
    /\ UNCHANGED everythingButHarvest

\* one attempt: the API call races the timeout; the response is returned or
\* the catch of the loop is entered
H_Attempt ==
    /\ harvest.pc = "h_attempt"
    /\ \E ok \in BOOLEAN :
          harvest' = IF ok
                     THEN [harvest EXCEPT !.apiCalls = @ + 1, !.retry = "response",
                                          !.pc = "h_response"]
                     ELSE [harvest EXCEPT !.apiCalls = @ + 1, !.pc = "h_log_attempt"]
    /\ UNCHANGED everythingButHarvest

\* the catch of the loop: await HarvestLogService.logError, whose exception
\* leaves callOpenAIWithRetry; then the wait, or the end of the loop and the
\* persistent-failure error
H_LogAttempt ==
    /\ harvest.pc = "h_log_attempt"
    /\ \E ok \in BOOLEAN :
          harvest' = IF ~ok THEN H_Throw([harvest EXCEPT !.retry = "log_threw"])
                     ELSE IF harvest.attempt < MaxRetries - 1
                     THEN [harvest EXCEPT !.pc = "h_wait"]
                     ELSE H_Throw([harvest EXCEPT !.attempt = @ + 1, !.retry = "persistent"])
    /\ UNCHANGED everythingButHarvest

\* await setTimeout(delays[attempt]), then the next attempt
H_Wait ==
    /\ harvest.pc = "h_wait"
    /\ harvest' = [harvest EXCEPT !.waits = Append(@, Delays[harvest.attempt + 1]),
                                  !.attempt = @ + 1, !.pc = "h_attempt"]
    /\ UNCHANGED everythingButHarvest

\* the content of the response is read and parsed, or an error is thrown
H_Response ==
    /\ harvest.pc = "h_response"
    /\ \E ok \in BOOLEAN :
          harvest' = IF ok THEN [harvest EXCEPT !.pc = "h_save"] ELSE H_Throw(harvest)
    /\ UNCHANGED everythingButHarvest

\* await saveToDatabaseOnly
H_Save ==
    /\ harvest.pc = "h_save"
    /\ \E ok \in BOOLEAN :
          harvest' = IF ok THEN [harvest EXCEPT !.pc = "h_log_success"] ELSE H_Throw(harvest)
    /\ UNCHANGED everythingButHarvest

\* await HarvestLogService.logInfo(success), then return { success: true }
H_LogSuccess ==
    /\ harvest.pc = "h_log_success"
    /\ \E ok \in BOOLEAN :
          harvest' = IF ok THEN H_Return(harvest, TRUE) ELSE H_Throw(harvest)
    /\ UNCHANGED everythingButHarvest

\* the catch of harvestWebsite: await HarvestLogService.logError, then return
\* { success: false }; an exception of logError leaves harvestWebsite and
\* harvestMultipleWebsites, which has no try
H_Catch ==
    /\ harvest.pc = "h_catch"
    /\ \E ok \in BOOLEAN :
          harvest' = IF ok THEN H_Return(harvest, FALSE)
                     ELSE [harvest EXCEPT !.pc = "h_rejected"]
    /\ UNCHANGED everythingButHarvest

\* the pause between two sites, then the next site
H_Pause ==
    /\ harvest.pc = "h_pause"
    /\ harvest' = [harvest EXCEPT !.events = Append(@, Event("pause", SitePause)),
                                  !.k = @ + 1, !.pc = "h_site"]
    /\ UNCHANGED everythingButHarvest

harvestMultipleWebsites ==
    \/ H_Call \/ H_Site \/ H_LogBegin \/ H_SystemPrompt \/ H_Attempt \/ H_LogAttempt
    \/ H_Wait \/ H_Response \/ H_Save \/ H_LogSuccess \/ H_Catch \/ H_Pause

InitHarvest ==
    /\ input = BadText
    /\ clock = 0
    /\ op = "none"
    /\ pc = "idle"
    /\ validation = Null
    /\ extracted = Null
    /\ parsedData = Null
    /\ i = 0
    /\ counters = NoCounters
    /\ result = Null
    /\ snapshots = <<>>
    /\ calls = <<>>
    /\ inflight = <<>>
    /\ records = NoRecords
    /\ sessions = NoSessions
    /\ progressCallback = Registered
    /\ harvest \in {HarvestOf(sites) : sites \in SeqUpTo(BOOLEAN, MaxSites)}
NextHarvest == harvestMultipleWebsites
SpecHarvest == InitHarvest /\ [][NextHarvest]_vars

\* ------------------------------------------------------------------------
\* Properties of OpenAIHarvestingService (SpecHarvest)
\* ------------------------------------------------------------------------
\* the delays waited before the attempts 2..n
WaitsBefore(n) == [a \in 1..(n - 1) |-> Delays[a]]

\* C25: callOpenAIWithRetry makes a fixed number of attempts: the first
\* successful response is returned at once, each failed attempt but the last
\* is followed by its wait (2 s, then 5 s), and when it throws after failed
\* attempts it has made exactly MaxRetries of them and throws the
\* persistent-failure error, whatever the error logging did
C25_FixedAttempts ==
    /\ harvest.retry = "response" =>
          /\ harvest.apiCalls \in 1..MaxRetries
          /\ harvest.waits = WaitsBefore(harvest.apiCalls)
    /\ harvest.retry \in {"persistent", "log_threw"} =>
          /\ harvest.retry = "persistent"
          /\ harvest.apiCalls = MaxRetries
          /\ harvest.waits = WaitsBefore(MaxRetries)


\* the events of a sequential run over the first n sites: start and end of
\* each site in input order, a pause between two consecutive sites
RECURSIVE SequentialEvents(_)
SequentialEvents(n) ==
    IF n = 0 THEN <<>>
    ELSE SequentialEvents(n - 1)
         \o (IF n > 1 THEN <<Event("pause", SitePause)>> ELSE <<>>)
         \o <<Event("start", n), Event("end", n)>>

\* C26: harvestMultipleWebsites takes the sites one at a time in input order
\* with a pause between two sites, never rejects, and returns one result per
\* input site: a site whose harvest fails, also when its error log cannot be
\* written, gives a success=false result and the remaining sites are harvested
C26_OneResultPerSite ==
    /\ harvest.pc # "h_rejected"
    /\ harvest.pc = "h_returned" =>
          /\ Len(harvest.results) = Len(harvest.sites)
          /\ harvest.events = SequentialEvents(Len(harvest.sites))
          /\ \A k \in 1..Len(harvest.sites) : ~harvest.sites[k] => ~harvest.results[k]


\* ------------------------------------------------------------------------
\* Validator and extractor together (SpecJson)
\* ------------------------------------------------------------------------
\* C27: on a payload the validator accepts the extractor loses no document:
\* extractValidData returns summary.totalDocuments documents, one per entry of
\* the input's documents array and in the same order
C27_ValidLosesNoDocument ==
    validation # Null /\ extracted # Null /\ validation.isValid =>
        /\ Len(extracted.documents) = validation.summary.totalDocuments
        /\ Len(extracted.documents) = Len(InputDocs)
        /\ \A k \in 1..Len(InputDocs) :
              /\ extracted.documents[k].url_doc = Field(InputDocs[k], "url_doc")
              /\ extracted.documents[k].document_name
                    = OrElse(Field(InputDocs[k], "document_name"), Str(<<>>))

\* C27 witness: a payload of two documents, the first one named, was accepted
\* and both documents were extracted
C27_Witness ==
    /\ validation # Null
    /\ validation.isValid
    /\ validation.summary.totalDocuments = 2
    /\ extracted # Null
    /\ Len(extracted.documents) = 2
    /\ extracted.documents[1].document_name = Str(NameDup)
    /\ extracted.documents[1].url_doc # extracted.documents[2].url_doc


\* ------------------------------------------------------------------------
\* More properties of importHarvestData (Spec)
\* ------------------------------------------------------------------------
\* the update of the site has completed successfully
SiteUpdated == \E n \in 1..Len(calls) : calls[n].kind = "updateDataSource" /\ calls[n].ok

\* C28: in the result importHarvestData returns, obstaclesUpdated and
\* recommandationsUpdated are true only if the update of the site that
\* carried them completed successfully
C28_FlagsOnlyIfUpdated ==
    InData /\ pc = "returned" =>
        /\ result.obstaclesUpdated => SiteUpdated
        /\ result.recommandationsUpdated => SiteUpdated


\* ------------------------------------------------------------------------
\* The last snapshot of an import (Spec)
\* ------------------------------------------------------------------------
\* C29: every import that returns has emitted a completed or error snapshot
\* last, and the last phase is completed iff the returned success is true
C29_CompletedIffSuccess ==
    pc = "returned" =>
        /\ snapshots # <<>>
        /\ LastPhase \in {"completed", "error"}
        /\ LastPhase = "completed" <=> result.success

\* ------------------------------------------------------------------------
\* Malformed entries of the payload's logs array (Spec)
\* ------------------------------------------------------------------------
\* the payload's logs field is an array with an entry that is no object
HasMalformedLog ==
    /\ input.t = "json"
    /\ IsArray(Field(input.v, "logs"))
    /\ \E k \in 1..Len(Field(input.v, "logs").v) : ~IsObject(Field(input.v, "logs").v[k])

\* the documents the payload gives once its logs field is taken away, when
\* it is parsed and validated and has at least one document
DocumentsWithoutLogs ==
    LET parseResult == parseOpenAIResponse([input.v EXCEPT !.v.logs = Undef])
    IN IF parseResult.success /\ validateParsedData(parseResult.data).isValid
       THEN parseResult.data.documents ELSE <<>>

\* C30: a malformed entry of the logs array never prevents the documents of
\* the payload from being imported by importHarvestData: parsing succeeds
\* with every valid document and the documents phase is reached
C30_MalformedLogSkipped ==
    InData /\ DataParsed /\ HasMalformedLog /\ DocumentsWithoutLogs # <<>> =>
        /\ pc # "d_notify_parse_error"
        /\ parsedData.documents = DocumentsWithoutLogs
        /\ pc = "returned" /\ (\A n \in 1..Len(snapshots) : ~snapshots[n].threw) =>
              \E n \in 1..Len(Phases) : Phases[n] = "documents"


=============================================================================
